---- MODULE Spec2Model ----
(***************************************************************************)
(* State-machine model of streamlit_app.py: the five-stage guided-writing  *)
(* wizard kept in st.session_state, its collaborator (OpenAI) wrappers and *)
(* the tolerant JSON parser parse_gpt_json_response.                       *)
(*                                                                         *)
(* Texts are sequences of tokens.  A character the code inspects (blank,   *)
(* line break) is a token of its own, user text is made of one-character   *)
(* tokens, and a fixed message of the program or a JSON document returned  *)
(* by the model is one token.  Korean literals of the source are written   *)
(* romanised, the Korean original is given in the comment beside them.     *)
(*                                                                         *)
(* One action is one user interaction: the script run that handles it and, *)
(* when the handler calls st.rerun(), the script run that follows.         *)
(* The paragraph texts, which the script itself writes under their widget  *)
(* keys, are taken to stay in st.session_state while another page is       *)
(* shown.  The value of the final text area lives under final_input, which *)
(* only the widget writes: it is kept from run to run while the area is    *)
(* shown and is gone once a run has completed without showing it.  The     *)
(* values of the other widgets are given with the interaction that reads   *)
(* them.                                                                   *)
(***************************************************************************)
EXTENDS Integers, Sequences, FiniteSets, TLC

VARIABLES
  OPENAI_OK,   \* module-level flag, set once when the script is first loaded
  ss,          \* st.session_state: a function from the keys present to values
  fault,       \* the uncaught exception that ended the last script run, or <<>>
  widgets,     \* the widgets the last script run put on the page
  errors,      \* the st.error messages the last interaction's handler surfaced
  calls,       \* the collaborator requests (client.chat.completions.create) of the last interaction
  anomalies,   \* how many collaborator requests so far did not return their nominal answer
  response,    \* a text handed to parse_gpt_json_response outside any session
  parsed       \* what parse_gpt_json_response returned for it

vars == <<OPENAI_OK, ss, fault, widgets, errors, calls, anomalies, response, parsed>>

(***************************************************************************)
(* Bounds of the model.                                                    *)
(***************************************************************************)
\* at most this many collaborator requests raise, or answer with an empty or malformed text
MaxAnomalies == 1
\* the reflection log holds at most this many entries
MaxLog == 3

(***************************************************************************)
(* Texts.                                                                  *)
(***************************************************************************)
NL == "\n"
Whitespace == {" ", NL}

\* evaluate v once and hand the value to Op
Bind(v, Op(_)) == CHOOSE y \in {Op(x) : x \in {v}} : TRUE

\* str.strip()
strip(t) ==
  Bind(t, LAMBDA x :
    Bind({i \in 1..Len(x) : x[i] \notin Whitespace}, LAMBDA solid :
      IF solid = {} THEN <<>>
      ELSE SubSeq(x, CHOOSE i \in solid : \A j \in solid : i <= j,
                     CHOOSE i \in solid : \A j \in solid : i >= j)))

\* the least and the greatest element of a non-empty set of numbers
Least(S) == CHOOSE x \in S : \A y \in S : x <= y
Greatest(S) == CHOOSE x \in S : \A y \in S : x >= y

\* Python's `tok in text` for a one-token needle
Contains(t, tok) == \E i \in 1..Len(t) : t[i] = tok

\* Python's `pat in text`
ContainsSeq(t, pat) ==
  \E i \in 1..(Len(t) - Len(pat) + 1) : SubSeq(t, i, i + Len(pat) - 1) = pat

\* str.replace(pat, ''): left to right, non-overlapping
RECURSIVE Remove(_, _)
Remove(t, pat) ==
  IF Len(t) < Len(pat) THEN t
  ELSE IF SubSeq(t, 1, Len(pat)) = pat
       THEN Remove(SubSeq(t, Len(pat) + 1, Len(t)), pat)
       ELSE <<Head(t)>> \o Remove(Tail(t), pat)

(***************************************************************************)
(* Python values decoded from JSON.  A value is [kind, data]; data is      *)
(* always a record, for a dict the dict itself.                            *)
(***************************************************************************)
EmptyRecord == [k \in {} |-> 0]

Dict(d) == [kind |-> "dict", data |-> d]
Num(n) == [kind |-> "num", data |-> [value |-> n]]
None == [kind |-> "none", data |-> EmptyRecord]
Bool(b) == [kind |-> "bool", data |-> [value |-> b]]
List(items) == [kind |-> "list", data |-> [items |-> items]]
Str(chars) == [kind |-> "str", data |-> [chars |-> chars]]
EmptyDict == Dict(EmptyRecord)

IsDict(v) == v.kind = "dict"

\* bool(v)
Truthy(v) ==
  CASE v.kind = "dict" -> DOMAIN v.data # {}
    [] v.kind = "num" -> v.data.value # 0
    [] v.kind = "bool" -> v.data.value
    [] v.kind = "list" -> v.data.items # <<>>
    [] v.kind = "str" -> v.data.chars # <<>>
    [] OTHER -> FALSE

\* `key in v` for a dict v
HasKey(v, key) == IsDict(v) /\ key \in DOMAIN v.data

\* `"error" in v` raises TypeError when v is a number, a boolean or None: not iterable
InRaises(v) == v.kind \in {"num", "bool", "none"}

\* {"error": ..., "raw_response": ...}
ErrorRecord(msg, raw) == Dict([error |-> msg, raw_response |-> raw])

\* {"error": ...}
ErrorOnly(msg) == Dict([error |-> msg])

(***************************************************************************)
(* JSON documents.  A well-formed JSON document is one token; json.loads   *)
(* accepts a text that is exactly one document and raises JSONDecodeError  *)
(* on anything else.                                                       *)
(***************************************************************************)
\* the object analyze_tone_and_stance asks for (nonjo = 논조)
TONE_JSON == "{tone}"
\* the object evaluate_writing_rubric asks for
RUBRIC_JSON == "{rubric}"
\* the object assess_problem_solving asks for
PROBLEM_JSON == "{problem}"
\* the object get_paragraph_feedback asks for
PARAGRAPH_JSON == "{paragraph}"
NUMBER_JSON == "42"

ToneRecord ==
  Dict([nonjo_bunryu |-> "neutral", nonjo_jeomsu |-> 0,
        juyo_nonjeom |-> <<"p1", "p2", "p3">>, gamjeongjeok_eoneo |-> <<"e1">>,
        sinroedo_jeomsu |-> 5, gaekgwanseong_jeomsu |-> 5])

Criterion(n, why) == [kind |-> "dict", data |-> [jeomsu |-> n, geungeo |-> why]]

RubricRecord ==
  Dict([naeyong_nonriseong |-> Criterion(3, "g1"), guseong_chegyeseong |-> Criterion(3, "g2"),
        munbeop_eohwi_jeonghwakseong |-> Criterion(3, "g3"),
        chongjeom |-> "9", jonghap_pyeongga |-> "overall"])

ProblemRecord ==
  Dict([munje_ihae |-> Criterion(3, "s1"), bunseokjeok_sago |-> Criterion(3, "s2"),
        daean_balgyeon_mit_gihoek |-> Criterion(3, "s3"), uisasotong |-> Criterion(3, "s4"),
        chongjeom |-> "12", jonghap_pyeongga |-> "overall"])

ParagraphRecord ==
  Dict([gangjeom |-> <<"g">>, gaeseonjeom |-> <<"w">>,
        guchejeok_jean |-> "suggestion", chucheon_jeomsu |-> 3])

\* the objects asked for, and documents that are no object: 42, true, null, [1]
JsonDocuments ==
  {TONE_JSON, RUBRIC_JSON, PROBLEM_JSON, PARAGRAPH_JSON, NUMBER_JSON, "true", "null", "[1]"}

\* the value json.loads returns for a document
JsonValue(doc) ==
  CASE doc = TONE_JSON -> ToneRecord
    [] doc = RUBRIC_JSON -> RubricRecord
    [] doc = PROBLEM_JSON -> ProblemRecord
    [] doc = PARAGRAPH_JSON -> ParagraphRecord
    [] doc = "true" -> Bool(TRUE)
    [] doc = "null" -> None
    [] doc = "[1]" -> List(<<1>>)
    [] OTHER -> Num(42)

\* A document can also be spelled out: the object {"k": "..."} with one string
\* member, as the tokens  {  "k":  "  the string's characters  "  }  with any
\* whitespace between them, or the string alone, as the tokens  "  the string's
\* characters  " .  Inside the string a line break is written \\n.
LBRACE == "{"
RBRACE == "}"
KEY == "\"k\":"
QUOTE == "\""
ESC_NL == "\\n"

\* the tokens of t that are not whitespace
Solid(t) == SelectSeq(t, LAMBDA c : c \notin Whitespace)

\* the string's characters as json.loads returns them
Unescape(chars) == [i \in 1..Len(chars) |-> IF chars[i] = ESC_NL THEN NL ELSE chars[i]]

\* the positions of the quotes of a spelled-out object, {} when t is none
ObjectQuotes(t) ==
  Bind({i \in 1..Len(t) : t[i] = QUOTE}, LAMBDA quotes :
    IF /\ Cardinality(quotes) = 2
       /\ Solid(SubSeq(t, 1, Least(quotes) - 1)) = <<LBRACE, KEY>>
       /\ Solid(SubSeq(t, Greatest(quotes) + 1, Len(t))) = <<RBRACE>>
       /\ \A i \in (Least(quotes) + 1)..(Greatest(quotes) - 1) : t[i] \notin {NL, KEY}
    THEN quotes ELSE {})

\* t is a spelled-out string: a quote, characters that are no quote and no raw
\* line break, a quote
IsStringText(t) ==
  /\ Len(t) >= 2
  /\ t[1] = QUOTE /\ t[Len(t)] = QUOTE
  /\ \A i \in 2..(Len(t) - 1) : t[i] \notin {QUOTE, NL}

\* json.loads: [ok, value]; leading and trailing whitespace is allowed
json_loads(t) ==
  Bind(strip(t), LAMBDA s :
    IF Len(s) = 1 /\ s[1] \in JsonDocuments
    THEN [ok |-> TRUE, value |-> JsonValue(s[1])]
    ELSE IF IsStringText(s)
    THEN [ok |-> TRUE, value |-> Str(Unescape(SubSeq(s, 2, Len(s) - 1)))]
    ELSE Bind(ObjectQuotes(s), LAMBDA quotes :
           IF quotes # {}
           THEN [ok |-> TRUE,
                 value |-> Dict([k |-> Unescape(SubSeq(s, Least(quotes) + 1, Greatest(quotes) - 1))])]
           ELSE [ok |-> FALSE, value |-> None]))

(***************************************************************************)
(* parse_gpt_json_response                                                 *)
(***************************************************************************)
\* the three-backquote fence marker
FENCE == "<fence>"
JSON_TAG == "json"

\* re.search of fence, json, \s*, line break, (.*?), line break, fence with re.DOTALL:
\* the matches <<i, j, e>>,
\* the fence tag at i, the line break that ends \s*\n at j, the group j+1..e
FenceMatches(t) ==
  Bind(t, LAMBDA x :
    UNION {UNION {{<<i, j, e>> : e \in {n \in j..(Len(x) - 2) : x[n + 1] = NL /\ x[n + 2] = FENCE}} :
                    j \in {n \in (i + 2)..Len(x) :
                             x[n] = NL /\ \A k \in (i + 2)..(n - 1) : x[k] \in Whitespace}} :
             i \in {n \in 1..(Len(x) - 1) : x[n] = FENCE /\ x[n + 1] = JSON_TAG}})

\* FirstMatch with a greedy group: up to the last closing fence
FirstMatchGreedy(t) ==
  Bind(FenceMatches(t), LAMBDA M :
    Bind(Least({m[1] : m \in M}), LAMBDA i :
      Bind(Greatest({m[2] : m \in {n \in M : n[1] = i}}), LAMBDA j :
        SubSeq(t, j + 1, Greatest({m[3] : m \in {n \in M : n[1] = i /\ n[2] = j}})))))

\* the match the regex engine returns: leftmost start, \s* greedy, (.*?) lazy
FirstMatch(t) ==
  Bind(FenceMatches(t), LAMBDA M :
    Bind(Least({m[1] : m \in M}), LAMBDA i :
      Bind(Greatest({m[2] : m \in {n \in M : n[1] = i}}), LAMBDA j :
        SubSeq(t, j + 1, Least({m[3] : m \in {n \in M : n[1] = i /\ n[2] = j}})))))

\* json_str without the fence extraction
json_str_unfenced(response_text) == strip(response_text)

\* lines 54-63: the text handed to json.loads
json_str(response_text) ==
  IF ContainsSeq(response_text, <<FENCE, JSON_TAG>>)
  THEN IF FenceMatches(response_text) # {}
       THEN strip(FirstMatch(response_text))
       ELSE strip(Remove(Remove(response_text, <<FENCE, JSON_TAG, NL>>), <<NL, FENCE>>))
  ELSE strip(response_text)

JSON_PARSE_FAILED == <<"JSON pasing silpae">>   \* "JSON 파싱 실패: ..."

\* parse_gpt_json_response keeping the extracted text, not the response, in the error record
parse_keeping_extract(response_text) ==
  Bind(json_loads(json_str(response_text)), LAMBDA r :
    IF r.ok THEN r.value ELSE ErrorRecord(JSON_PARSE_FAILED, json_str(response_text)))

\* parse_gpt_json_response returning nothing but dicts, as its annotation says
parse_objects_only(response_text) ==
  Bind(json_loads(json_str(response_text)), LAMBDA r :
    IF r.ok /\ IsDict(r.value) THEN r.value ELSE ErrorRecord(JSON_PARSE_FAILED, response_text))

parse_gpt_json_response(response_text) ==
  Bind(json_loads(json_str(response_text)), LAMBDA r :
    IF r.ok THEN r.value ELSE ErrorRecord(JSON_PARSE_FAILED, response_text))

\* the parser has not been called
NotParsed == [kind |-> "not parsed", data |-> EmptyRecord]

(***************************************************************************)
(* The collaborator.  A request either raises or returns a message whose   *)
(* content the wrapper strips.  What it answers is not the program's to    *)
(* decide: an outcome is drawn for every request.                          *)
(*   ok      the answer asked for (a text; for a JSON request the object   *)
(*           asked for, fenced)                                            *)
(*   empty   a blank text                                                  *)
(*   number  the JSON document 42                                          *)
(*   prose   text that is no JSON                                          *)
(*   raise   client.chat.completions.create raises                         *)
(***************************************************************************)
TextSites == {"summary1", "summary2", "summary1_kr", "summary2_kr", "enhanced_feedback", "english_draft",
              "hint"}
JsonSites == {"tone_analysis1", "tone_analysis2", "writing_evaluation", "paragraph_feedback",
              "problem_solving_score"}
Sites == TextSites \cup JsonSites

Outcomes(site) ==
  IF site \in TextSites THEN {"ok", "empty", "raise"} ELSE {"ok", "number", "prose", "raise"}

\* a JSON answer as the model is asked to give it: the document in a json fence
Fenced(doc) == <<FENCE, JSON_TAG, NL, doc, NL, FENCE>>

\* response.choices[0].message.content of a JSON request
JsonContent(doc, outcome) ==
  CASE outcome = "ok" -> Fenced(doc) \o <<NL>>
    [] outcome = "number" -> <<NUMBER_JSON>>
    [] OTHER -> <<"x", " ", "x">>

\* response.choices[0].message.content of a text request; `answer` is the nominal answer
TextContent(answer, outcome) == IF outcome = "ok" THEN answer \o <<NL>> ELSE <<" ">>

\* fixed messages of the wrappers
SUMMARY_FAILED == "yoyak silpae"              \* "요약 실패"
SUMMARY_UNAVAILABLE == "yoyak bulga"          \* "요약 불가"
TRANSLATION_FAILED == "beonyeok silpae"       \* "번역 실패"
TRANSLATION_UNAVAILABLE == "beonyeok bulga"   \* "번역 불가"
API_ERROR == ": API oryu"                     \* ": API 오류"
NO_INPUT_TEXT == ": no input text"            \* ": 입력된 텍스트가 없습니다."
EXCEPTION_TEXT == ": e"                       \* the text of the exception
NO_SOURCE_SUMMARY == <<"no source summary">>  \* "원본 요약이 없어 번역할 수 없습니다."
NO_API_KEY == <<"no api key">>                \* "GPT 사용을 위한 OpenAI API 키가 ..."
NO_FEEDBACK_TEXT == <<"no text for feedback">> \* "피드백할 텍스트가 없습니다."
GPT_CALL_ERROR == <<"GPT call error", EXCEPTION_TEXT>>  \* "OpenAI API 오류: e" / "GPT 호출 오류: e"
FEEDBACK_DISABLED == <<"AI feedback disabled">> \* "AI 피드백 기능이 비활성화되어 있습니다."

\* A wrapper returns [value, called]: called tells whether the request was made.
Result(v, c) == [value |-> v, called |-> c]

\* summarize_text without the check of OPENAI_OK
summarize_text_unguarded(text, outcome) ==
  IF strip(text) = <<>> THEN Result(<<SUMMARY_UNAVAILABLE, NO_INPUT_TEXT>>, FALSE)
  ELSE IF outcome = "raise" THEN Result(<<SUMMARY_FAILED, EXCEPTION_TEXT>>, TRUE)
  ELSE Result(strip(TextContent(<<"summary of">> \o text, outcome)), TRUE)

summarize_text(text, outcome) ==
  IF ~OPENAI_OK THEN Result(<<SUMMARY_UNAVAILABLE, API_ERROR>>, FALSE)
  ELSE IF strip(text) = <<>> THEN Result(<<SUMMARY_UNAVAILABLE, NO_INPUT_TEXT>>, FALSE)
  ELSE IF outcome = "raise" THEN Result(<<SUMMARY_FAILED, EXCEPTION_TEXT>>, TRUE)
  ELSE Result(strip(TextContent(<<"summary of">> \o text, outcome)), TRUE)

analyze_tone_and_stance(text, outcome) ==
  IF ~OPENAI_OK THEN Result(ErrorOnly(<<API_ERROR>>), FALSE)
  ELSE IF outcome = "raise" THEN Result(ErrorOnly(<<"bunseok silpae", EXCEPTION_TEXT>>), TRUE)
  ELSE Result(parse_gpt_json_response(strip(JsonContent(TONE_JSON, outcome))), TRUE)

evaluate_writing_rubric(text, outcome) ==
  IF ~OPENAI_OK THEN Result(ErrorOnly(<<API_ERROR>>), FALSE)
  ELSE IF outcome = "raise" THEN Result(ErrorOnly(<<"pyeongga silpae", EXCEPTION_TEXT>>), TRUE)
  ELSE Result(parse_gpt_json_response(strip(JsonContent(RUBRIC_JSON, outcome))), TRUE)

\* len(reflection_text.strip()) < 10
MinReflectionLength == 10

\* the canned record: {"assessment": f"... \"{reflection_text}\" ..."}
InsufficientReflection(reflection_text) ==
  Dict([assessment |-> <<"insufficient reflection: ">> \o reflection_text])

\* assess_problem_solving measuring the text as given, padding included
assess_problem_solving_unstripped(reflection_text, outcome) ==
  IF ~OPENAI_OK THEN Result(ErrorOnly(<<API_ERROR>>), FALSE)
  ELSE IF Len(reflection_text) < MinReflectionLength
       THEN Result(InsufficientReflection(reflection_text), FALSE)
  ELSE IF outcome = "raise" THEN Result(ErrorOnly(<<"pyeongga silpae", EXCEPTION_TEXT>>), TRUE)
  ELSE Result(parse_gpt_json_response(strip(JsonContent(PROBLEM_JSON, outcome))), TRUE)

assess_problem_solving(reflection_text, outcome) ==
  IF ~OPENAI_OK THEN Result(ErrorOnly(<<API_ERROR>>), FALSE)
  ELSE IF reflection_text = <<>> \/ Len(strip(reflection_text)) < MinReflectionLength
       THEN Result(InsufficientReflection(reflection_text), FALSE)
  ELSE IF outcome = "raise" THEN Result(ErrorOnly(<<"pyeongga silpae", EXCEPTION_TEXT>>), TRUE)
  ELSE Result(parse_gpt_json_response(strip(JsonContent(PROBLEM_JSON, outcome))), TRUE)

get_paragraph_feedback(text, outcome) ==
  IF ~OPENAI_OK THEN Result(ErrorOnly(<<API_ERROR>>), FALSE)
  ELSE IF strip(text) = <<>> THEN Result(ErrorOnly(<<NO_INPUT_TEXT>>), FALSE)
  ELSE IF outcome = "raise" THEN Result(ErrorOnly(<<"feedback saengseong silpae", EXCEPTION_TEXT>>), TRUE)
  ELSE Result(parse_gpt_json_response(strip(JsonContent(PARAGRAPH_JSON, outcome))), TRUE)

enhanced_gpt_feedback(korean_text, outcome) ==
  IF ~OPENAI_OK THEN Result(NO_API_KEY, FALSE)
  ELSE IF strip(korean_text) = <<>> THEN Result(NO_FEEDBACK_TEXT, FALSE)
  ELSE IF outcome = "raise" THEN Result(GPT_CALL_ERROR, TRUE)
  ELSE Result(strip(TextContent(<<"feedback">>, outcome)), TRUE)

\* translate_to_korean without the look at the summary's failure prefixes
translate_to_korean_unchecked(text, outcome) ==
  IF ~OPENAI_OK THEN Result(<<TRANSLATION_UNAVAILABLE, API_ERROR>>, FALSE)
  ELSE IF strip(text) = <<>> THEN Result(<<TRANSLATION_UNAVAILABLE, NO_INPUT_TEXT>>, FALSE)
  ELSE IF outcome = "raise" THEN Result(<<TRANSLATION_FAILED, EXCEPTION_TEXT>>, TRUE)
  ELSE Result(strip(TextContent(<<"korean of">> \o text, outcome)), TRUE)

translate_to_korean(text, outcome) ==
  IF ~OPENAI_OK THEN Result(<<TRANSLATION_UNAVAILABLE, API_ERROR>>, FALSE)
  ELSE IF Contains(text, SUMMARY_FAILED) \/ Contains(text, SUMMARY_UNAVAILABLE)
       THEN Result(NO_SOURCE_SUMMARY, FALSE)
  ELSE IF strip(text) = <<>> THEN Result(<<TRANSLATION_UNAVAILABLE, NO_INPUT_TEXT>>, FALSE)
  ELSE IF outcome = "raise" THEN Result(<<TRANSLATION_FAILED, EXCEPTION_TEXT>>, TRUE)
  ELSE Result(strip(TextContent(<<"korean of">> \o text, outcome)), TRUE)

translate_to_english(text, outcome) ==
  IF ~OPENAI_OK THEN Result(<<TRANSLATION_UNAVAILABLE, API_ERROR>>, FALSE)
  ELSE IF strip(text) = <<>> THEN Result(<<TRANSLATION_UNAVAILABLE, NO_INPUT_TEXT>>, FALSE)
  ELSE IF outcome = "raise" THEN Result(<<TRANSLATION_FAILED, EXCEPTION_TEXT>>, TRUE)
  ELSE Result(strip(TextContent(<<"english of">> \o text, outcome)), TRUE)

\* lines 1007-1016: the hint request, made by the page itself ("힌트 생성 실패: e")
hint_response(outcome) ==
  IF outcome = "raise" THEN Result(<<"hint saengseong silpae", EXCEPTION_TEXT>>, TRUE)
  ELSE Result(strip(TextContent(<<"hint">>, outcome)), TRUE)

\* "데이터 없음"
NO_DATA == <<"no data">>

format_analysis_for_display(analysis_data, analysis_type) ==
  IF ~Truthy(analysis_data) THEN ErrorOnly(NO_DATA)
  ELSE IF IsDict(analysis_data) /\ ~HasKey(analysis_data, "error") THEN analysis_data
  ELSE IF IsDict(analysis_data) /\ HasKey(analysis_data, analysis_type)
       THEN parse_gpt_json_response(analysis_data.data[analysis_type])
  ELSE analysis_data

(***************************************************************************)
(* st.session_state                                                        *)
(***************************************************************************)
progress_stages == <<"input", "analysis", "draft", "feedback", "final">>

\* the paragraph slots in the order the draft page lays them out: widget key, section header
ParagraphKeys == <<"intro_input", "body1_input", "body2_input", "compare_input", "conclusion_input">>
\* "[서론]", "[본론 1 - 기사 1]", "[본론 2 - 기사 2]", "[비교 분석]", "[결론]"
ParagraphHeaders == <<"[seoron]", "[bonron 1 - gisa 1]", "[bonron 2 - gisa 2]", "[bigyo bunseok]", "[gyeolron]">>
NumParagraphs == 5
Slots == 1..NumParagraphs

error_key(key) ==
  CASE key = "intro_input" -> "intro_input_error_placeholder"
    [] key = "body1_input" -> "body1_input_error_placeholder"
    [] key = "body2_input" -> "body2_input_error_placeholder"
    [] key = "compare_input" -> "compare_input_error_placeholder"
    [] OTHER -> "conclusion_input_error_placeholder"

\* f"{hint_key}_hint"
hint_state_key(key) ==
  CASE key = "intro_input" -> "intro_hint"
    [] key = "body1_input" -> "body1_hint"
    [] key = "body2_input" -> "body2_hint"
    [] key = "compare_input" -> "compare_hint"
    [] OTHER -> "conclusion_hint"

\* the value of st.empty()
PLACEHOLDER == <<"st.empty()">>
\* datetime.datetime.now(): the program stores it and never inspects it
NOW == "datetime.now()"

\* lines 740-754
InitialSession ==
  [stage |-> "input",
   article1 |-> <<>>, article2 |-> <<>>,
   summary1 |-> <<>>, summary2 |-> <<>>,
   summary1_kr |-> <<>>, summary2_kr |-> <<>>,
   tone_analysis1 |-> EmptyDict, tone_analysis2 |-> EmptyDict,
   draft |-> <<>>, feedback |-> <<>>,
   writing_evaluation |-> EmptyDict,
   problem_solving_score |-> EmptyDict,
   reflection_log |-> <<>>,
   final_text |-> <<>>,
   paragraph_feedback |-> EmptyRecord,
   self_assessment |-> None,
   enhanced_feedback |-> <<>>]

Has(s, key) == key \in DOMAIN s
\* st.session_state.get(key, default)
Get(s, key, default) == IF Has(s, key) THEN s[key] ELSE default
\* st.session_state[key] = value
Put(s, key, value) == (key :> value) @@ s

(***************************************************************************)
(* A script run.  r = [ss, fault, widgets, errors, calls, rerun]: the       *)
(* session, the uncaught exception that ended the run (<<>>: none), the    *)
(* widgets put on the page, the validation messages shown, the             *)
(* collaborator requests made, whether st.rerun() was called.  Statements  *)
(* after a fault or after st.rerun() are not executed.                     *)
(***************************************************************************)
NoFault == <<>>
Start(s) ==
  [ss |-> s, fault |-> NoFault, widgets |-> {}, errors |-> {}, calls |-> {}, rerun |-> FALSE]

Running(r) == r.fault = NoFault /\ ~r.rerun

\* the next statements of the script
Then(r, Op(_)) == Bind(r, LAMBDA x : IF Running(x) THEN Op(x) ELSE x)

\* st.session_state.<key> of a key that is absent raises AttributeError
AttributeError(key) == <<"AttributeError", key>>
\* an operation the value does not support
TypeError(what) == <<"TypeError", what>>

Raise(r, exc) == [r EXCEPT !.fault = exc]

\* statements that read st.session_state.<key> for the keys given
Reading(r, keys, Op(_)) ==
  Bind(r, LAMBDA x :
    IF ~Running(x) THEN x
    ELSE IF \E k \in keys : ~Has(x.ss, k)
         THEN Raise(x, AttributeError(CHOOSE k \in keys : ~Has(x.ss, k)))
         ELSE Op(x))

Store(r, key, value) == [r EXCEPT !.ss = Put(r.ss, key, value)]
\* the wrapper's result is kept under `key`, its request (if made) is recorded
StoreResult(r, key, result) ==
  Bind(result, LAMBDA x :
    [r EXCEPT !.ss = Put(r.ss, key, x.value),
              !.calls = IF x.called THEN @ \cup {key} ELSE @])
\* st.error(msg) of a validation message
st_error(r, msgs) == [r EXCEPT !.errors = @ \cup msgs]
st_rerun(r) == [r EXCEPT !.rerun = TRUE]
\* widgets are put on the page; a widget is <<name, key>>
Widgets(r, ws) == [r EXCEPT !.widgets = @ \cup ws]

\* what the user did to start the script run: <<name, key>> of the button pressed,
\* NoClick when a widget value changed or the run follows st.rerun()
NoClick == <<"", "">>
Clicked(click, name, key) == click = <<name, key>>

\* the outcome the collaborator gives the request of `site`
Outcome(o, site) == IF site \in DOMAIN o THEN o[site] ELSE "ok"

(***************************************************************************)
(* Stage 1, lines 779-830.  `in` holds the values of the page's widgets.   *)
(***************************************************************************)
\* InputStage with the second article's check left out
InputStageFirstArticleOnly(r, click, in) ==
  Bind(Widgets(r, {<<"article_input", "">>, <<"input_next", "">>}), LAMBDA page :
    IF ~Clicked(click, "input_next", "") THEN page
    ELSE IF strip(in.article1) # <<>>
         THEN st_rerun(Store(Store(Store(page, "article1", in.article1),
                                   "article2", in.article2), "stage", "analysis"))
         ELSE st_error(page, {<<"article1", "">>, <<"all required", "">>}))

InputStage(r, click, in) ==
  Bind(Widgets(r, {<<"article_input", "">>, <<"input_next", "">>}), LAMBDA page :
    IF ~Clicked(click, "input_next", "") THEN page
    ELSE IF strip(in.article1) # <<>> /\ strip(in.article2) # <<>>
         THEN st_rerun(Store(Store(Store(page, "article1", in.article1),
                                   "article2", in.article2), "stage", "analysis"))
         ELSE st_error(page,
                {m \in {<<"article1", "">>} : strip(in.article1) = <<>>}
                \cup {m \in {<<"article2", "">>} : strip(in.article2) = <<>>}
                \cup {<<"all required", "">>}))

(***************************************************************************)
(* Stage 2, lines 833-925.                                                 *)
(***************************************************************************)
\* AnalysisBatch translating the summaries stored before the batch
AnalysisBatchTranslatingFirst(r, o) ==
  Reading(r, {"article1", "article2", "summary1", "summary2"}, LAMBDA q :
    StoreResult(StoreResult(StoreResult(StoreResult(StoreResult(StoreResult(q,
      "summary1_kr", translate_to_korean(q.ss.summary1, Outcome(o, "summary1_kr"))),
      "summary2_kr", translate_to_korean(q.ss.summary2, Outcome(o, "summary2_kr"))),
      "summary1", summarize_text(q.ss.article1, Outcome(o, "summary1"))),
      "summary2", summarize_text(q.ss.article2, Outcome(o, "summary2"))),
      "tone_analysis1", analyze_tone_and_stance(q.ss.article1, Outcome(o, "tone_analysis1"))),
      "tone_analysis2", analyze_tone_and_stance(q.ss.article2, Outcome(o, "tone_analysis2"))))

\* lines 838-845: the summarize / analyze / translate batch
AnalysisBatch(r, o) ==
  Reading(r, {"article1", "article2"}, LAMBDA q :
    Bind(StoreResult(StoreResult(StoreResult(StoreResult(q,
           "summary1", summarize_text(q.ss.article1, Outcome(o, "summary1"))),
           "summary2", summarize_text(q.ss.article2, Outcome(o, "summary2"))),
           "tone_analysis1", analyze_tone_and_stance(q.ss.article1, Outcome(o, "tone_analysis1"))),
           "tone_analysis2", analyze_tone_and_stance(q.ss.article2, Outcome(o, "tone_analysis2"))),
      LAMBDA u :
        StoreResult(StoreResult(u,
          "summary1_kr", translate_to_korean(u.ss.summary1, Outcome(o, "summary1_kr"))),
          "summary2_kr", translate_to_korean(u.ss.summary2, Outcome(o, "summary2_kr")))))

\* `"error" not in data` followed by data.get(...): what a page does with a formatted record
Displayed(r, data) ==
  Bind(data, LAMBDA x :
    IF ~Running(r) THEN r
    ELSE IF InRaises(x) THEN Raise(r, TypeError("argument is not iterable"))
    ELSE IF ~IsDict(x) THEN Raise(r, AttributeError("get"))
    ELSE r)

\* lines 847-895: both columns, the chart and the emotional words
AnalysisDisplay(r) ==
  Reading(r, {"summary1", "summary1_kr", "tone_analysis1",
              "summary2", "summary2_kr", "tone_analysis2"}, LAMBDA q :
    Displayed(Displayed(q, format_analysis_for_display(q.ss.tone_analysis1, "analysis")),
              format_analysis_for_display(q.ss.tone_analysis2, "analysis")))

LogEntry(stage, content) == [stage |-> stage, content |-> content, timestamp |-> NOW]

\* AnalysisButtons with the log replaced by its newest entry
AnalysisButtonsOverwritingLog(r, click, in) ==
  Bind(Widgets(r, {<<"analysis_reflection", "">>, <<"analysis_back", "">>, <<"analysis_next", "">>}),
    LAMBDA q :
      IF Clicked(click, "analysis_back", "") THEN st_rerun(Store(q, "stage", "input"))
      ELSE IF Clicked(click, "analysis_next", "")
           THEN IF strip(in.reflection) = <<>> THEN st_error(q, {<<"analysis reflection", "">>})
                ELSE Reading(q, {"reflection_log"}, LAMBDA u :
                       st_rerun(Store(Store(u, "reflection_log",
                         <<LogEntry("analysis", in.reflection)>>),
                         "stage", "draft")))
      ELSE q)

\* AnalysisButtons with the next button leading past the draft stage
AnalysisButtonsSkipping(r, click, in) ==
  Bind(Widgets(r, {<<"analysis_reflection", "">>, <<"analysis_back", "">>, <<"analysis_next", "">>}),
    LAMBDA q :
      IF Clicked(click, "analysis_back", "") THEN st_rerun(Store(q, "stage", "input"))
      ELSE IF Clicked(click, "analysis_next", "")
           THEN IF strip(in.reflection) = <<>> THEN st_error(q, {<<"analysis reflection", "">>})
                ELSE Reading(q, {"reflection_log"}, LAMBDA u :
                       st_rerun(Store(Store(u, "reflection_log",
                         Append(u.ss.reflection_log, LogEntry("analysis", in.reflection))),
                         "stage", "feedback")))
      ELSE q)

\* AnalysisButtons advancing without an entry in the log
AnalysisButtonsNotLogging(r, click, in) ==
  Bind(Widgets(r, {<<"analysis_reflection", "">>, <<"analysis_back", "">>, <<"analysis_next", "">>}),
    LAMBDA q :
      IF Clicked(click, "analysis_back", "") THEN st_rerun(Store(q, "stage", "input"))
      ELSE IF Clicked(click, "analysis_next", "")
           THEN IF strip(in.reflection) = <<>> THEN st_error(q, {<<"analysis reflection", "">>})
                ELSE Reading(q, {"reflection_log"}, LAMBDA u : st_rerun(Store(u, "stage", "draft")))
      ELSE q)

\* lines 907-925: the two buttons
AnalysisButtons(r, click, in) ==
  Bind(Widgets(r, {<<"analysis_reflection", "">>, <<"analysis_back", "">>, <<"analysis_next", "">>}),
    LAMBDA q :
      IF Clicked(click, "analysis_back", "") THEN st_rerun(Store(q, "stage", "input"))
      ELSE IF Clicked(click, "analysis_next", "")
           THEN IF strip(in.reflection) = <<>> THEN st_error(q, {<<"analysis reflection", "">>})
                ELSE Reading(q, {"reflection_log"}, LAMBDA u :
                       st_rerun(Store(Store(u, "reflection_log",
                         Append(u.ss.reflection_log, LogEntry("analysis", in.reflection))),
                         "stage", "draft")))
      ELSE q)

AnalysisStage(r, click, in, o) ==
  Then(Then(Then(r, LAMBDA q :
                      IF Get(q.ss, "summary1", <<>>) = <<>> THEN AnalysisBatch(q, o) ELSE q),
            AnalysisDisplay),
       LAMBDA q : AnalysisButtons(q, click, in))

(***************************************************************************)
(* Stage 3, lines 928-1123.                                                *)
(***************************************************************************)
\* lines 945-957: the slot's complete button
ParagraphCompleteButton(r, key, click, o) ==
  IF ~Clicked(click, "complete", key) THEN r
  ELSE IF strip(r.ss[key]) # <<>>
       THEN Bind(get_paragraph_feedback(r.ss[key], Outcome(o, "paragraph_feedback")),
              LAMBDA feedback :
                Reading([r EXCEPT !.calls = IF feedback.called
                                            THEN @ \cup {"paragraph_feedback"} ELSE @],
                        {"paragraph_feedback"}, LAMBDA q :
                          Store(q, "paragraph_feedback",
                                Put(q.ss.paragraph_feedback, key, feedback.value))))
       ELSE st_error(r, {<<"write the paragraph first", key>>})

\* lines 1002-1019: the slot's hint button
HintButton(r, key, click, o) ==
  Bind(Widgets(Store(r, hint_state_key(key), Get(r.ss, hint_state_key(key), <<>>)),
               {<<"hint", key>>}),
    LAMBDA q :
      IF ~Clicked(click, "hint", key) THEN q
      ELSE Bind(hint_response(Outcome(o, "hint")), LAMBDA hint :
             [Store(q, hint_state_key(key), hint.value) EXCEPT !.calls = @ \cup {"hint"}]))

\* paragraph_input_with_guide forgetting the feedback of a slot whose text is blank
paragraph_input_dropping_feedback(r, i, click, o) ==
  Then(Then(Then(Then(r,
    LAMBDA q : Widgets([q EXCEPT !.ss = Put(Put(q.ss, error_key(ParagraphKeys[i]),
                                                 Get(q.ss, error_key(ParagraphKeys[i]), PLACEHOLDER)),
                                             ParagraphKeys[i], Get(q.ss, ParagraphKeys[i], <<>>))],
                       {<<"paragraph", ParagraphKeys[i]>>, <<"complete", ParagraphKeys[i]>>})),
    LAMBDA q : ParagraphCompleteButton(q, ParagraphKeys[i], click, o)),
    LAMBDA q : Reading(q, {"paragraph_feedback"}, LAMBDA u :
                 IF Has(u.ss.paragraph_feedback, ParagraphKeys[i])
                 THEN IF strip(u.ss[ParagraphKeys[i]]) = <<>>
                      THEN Store(u, "paragraph_feedback",
                                 [k \in DOMAIN u.ss.paragraph_feedback \ {ParagraphKeys[i]} |->
                                    u.ss.paragraph_feedback[k]])
                      ELSE Displayed(u, u.ss.paragraph_feedback[ParagraphKeys[i]])
                 ELSE u)),
    LAMBDA q : IF OPENAI_OK THEN HintButton(q, ParagraphKeys[i], click, o) ELSE q)

\* lines 931-1021 for the slot at position i
paragraph_input_with_guide(r, i, click, o) ==
  Then(Then(Then(Then(r,
    LAMBDA q : Widgets([q EXCEPT !.ss = Put(Put(q.ss, error_key(ParagraphKeys[i]),
                                                 Get(q.ss, error_key(ParagraphKeys[i]), PLACEHOLDER)),
                                             ParagraphKeys[i], Get(q.ss, ParagraphKeys[i], <<>>))],
                       {<<"paragraph", ParagraphKeys[i]>>, <<"complete", ParagraphKeys[i]>>})),
    LAMBDA q : ParagraphCompleteButton(q, ParagraphKeys[i], click, o)),
    LAMBDA q : Reading(q, {"paragraph_feedback"}, LAMBDA u :
                 IF Has(u.ss.paragraph_feedback, ParagraphKeys[i])
                 THEN Displayed(u, u.ss.paragraph_feedback[ParagraphKeys[i]]) ELSE u)),
    LAMBDA q : IF OPENAI_OK THEN HintButton(q, ParagraphKeys[i], click, o) ELSE q)

\* lines 1069-1075
full_draft(s) ==
  <<ParagraphHeaders[1], NL>> \o s[ParagraphKeys[1]] \o <<NL, NL>>
  \o <<ParagraphHeaders[2], NL>> \o s[ParagraphKeys[2]] \o <<NL, NL>>
  \o <<ParagraphHeaders[3], NL>> \o s[ParagraphKeys[3]] \o <<NL, NL>>
  \o <<ParagraphHeaders[4], NL>> \o s[ParagraphKeys[4]] \o <<NL, NL>>
  \o <<ParagraphHeaders[5], NL>> \o s[ParagraphKeys[5]]

\* BlankParagraphs looking at the first slot only
BlankFirstParagraph(s) == {i \in {1} : strip(s[ParagraphKeys[i]]) = <<>>}

\* lines 1099-1116: the slots whose text is blank
BlankParagraphs(s) == {i \in Slots : strip(s[ParagraphKeys[i]]) = <<>>}

\* DraftButtons with the back button also clearing the first article
DraftButtonsClearingArticle(r, click) ==
  Bind(Widgets(r, {<<"draft_back", "">>, <<"draft_next", "">>}), LAMBDA q :
    IF Clicked(click, "draft_back", "")
    THEN st_rerun(Store(Store(q, "article1", <<>>), "stage", "analysis"))
    ELSE IF Clicked(click, "draft_next", "")
         THEN Bind(BlankParagraphs(q.ss), LAMBDA blank :
                IF blank = {} THEN st_rerun(Store(q, "stage", "feedback"))
                ELSE st_error(q, {<<"write", ParagraphKeys[i]>> : i \in blank}
                                 \cup {<<"write every paragraph", "">>}))
    ELSE q)

\* lines 1090-1123: the two buttons
DraftButtons(r, click) ==
  Bind(Widgets(r, {<<"draft_back", "">>, <<"draft_next", "">>}), LAMBDA q :
    IF Clicked(click, "draft_back", "") THEN st_rerun(Store(q, "stage", "analysis"))
    ELSE IF Clicked(click, "draft_next", "")
         THEN Bind(BlankParagraphs(q.ss), LAMBDA blank :
                IF blank = {} THEN st_rerun(Store(q, "stage", "feedback"))
                ELSE st_error(q, {<<"write", ParagraphKeys[i]>> : i \in blank}
                                 \cup {<<"write every paragraph", "">>}))
    ELSE q)

DraftStage(r, click, o) ==
  Then(Reading(Then(
    paragraph_input_with_guide(paragraph_input_with_guide(paragraph_input_with_guide(
      paragraph_input_with_guide(paragraph_input_with_guide(r, 1, click, o), 2, click, o),
      3, click, o), 4, click, o), 5, click, o),
    LAMBDA q : Store(q, "draft", full_draft(q.ss))),
    {"paragraph_feedback"}, LAMBDA q : q),
    LAMBDA q : DraftButtons(q, click))

(***************************************************************************)
(* Stage 4, lines 1126-1273.                                               *)
(***************************************************************************)
\* "내용논리성", "구성체계성", "문법어휘정확성"
Categories == {"naeyong_nonriseong", "guseong_chegyeseong", "munbeop_eohwi_jeonghwakseong"}

\* lines 1150-1156: the fields of the self-assessment form left blank
BlankAssessmentFields(data) ==
  {c \in Categories : strip(data.reflections[c]) = <<>>}
  \cup {c \in {"overall_reflection"} : strip(data.overall_reflection) = <<>>}

\* lines 1169-1183: the narrative feedback and the rubric evaluation
FeedbackGeneration(r, o) ==
  IF OPENAI_OK
  THEN Reading(r, {"draft", "self_assessment", "paragraph_feedback"}, LAMBDA q :
         Bind(translate_to_english(q.ss.draft, Outcome(o, "english_draft")), LAMBDA english_draft :
           StoreResult([StoreResult(q, "enhanced_feedback",
                          enhanced_gpt_feedback(q.ss.draft, Outcome(o, "enhanced_feedback")))
                          EXCEPT !.calls = IF english_draft.called
                                           THEN @ \cup {"english_draft"} ELSE @],
                       "writing_evaluation",
                       evaluate_writing_rubric(english_draft.value,
                                               Outcome(o, "writing_evaluation")))))
  ELSE Store(r, "enhanced_feedback", FEEDBACK_DISABLED)

\* SelfAssessmentForm checking the overall reflection alone
SelfAssessmentFormOverallOnly(r, click, in) ==
  Bind(Widgets(r, {<<"rubric_again", "">>, <<"self_assessment_submit", "">>}), LAMBDA form :
    IF ~Clicked(click, "self_assessment_submit", "") THEN form
    ELSE IF strip(in.assessment.overall_reflection) = <<>>
         THEN st_error(form, {<<"overall_reflection", "">>})
         ELSE st_rerun(Store(form, "self_assessment", Dict(in.assessment))))

\* lines 1144-1163: the self-assessment form
SelfAssessmentForm(r, click, in) ==
  Bind(Widgets(r, {<<"rubric_again", "">>, <<"self_assessment_submit", "">>}), LAMBDA form :
    IF ~Clicked(click, "self_assessment_submit", "") THEN form
    ELSE Bind(BlankAssessmentFields(in.assessment), LAMBDA blank :
           IF blank # {} THEN st_error(form, {<<c, "">> : c \in blank})
           ELSE st_rerun(Store(form, "self_assessment", Dict(in.assessment)))))

\* lines 1141-1242: the right-hand column
FeedbackColumn(r, click, in, o) ==
  Reading(r, {"draft", "self_assessment"}, LAMBDA q :
    IF ~Truthy(q.ss.self_assessment) THEN SelfAssessmentForm(q, click, in)
    ELSE Reading(Reading(q, {"enhanced_feedback"}, LAMBDA u :
                   IF u.ss.enhanced_feedback = <<>> THEN FeedbackGeneration(u, o) ELSE u),
                 {"enhanced_feedback", "writing_evaluation"}, LAMBDA w :
                   Displayed(w, format_analysis_for_display(w.ss.writing_evaluation, "evaluation"))))

\* FeedbackButtons assessing the reflection only while no score is stored
FeedbackButtonsScoringOnce(r, click, in, o) ==
  Bind(Widgets(r, {<<"feedback_reflection", "">>, <<"feedback_back", "">>, <<"feedback_next", "">>}),
    LAMBDA q :
      IF Clicked(click, "feedback_back", "") THEN st_rerun(Store(q, "stage", "draft"))
      ELSE IF Clicked(click, "feedback_next", "")
           THEN IF strip(in.reflection) = <<>> THEN st_error(q, {<<"feedback reflection", "">>})
                ELSE Reading(q, {"reflection_log", "problem_solving_score"}, LAMBDA u :
                       IF Truthy(u.ss.problem_solving_score)
                       THEN st_rerun(Store(Store(u, "reflection_log",
                              Append(u.ss.reflection_log, LogEntry("feedback", in.reflection))),
                              "stage", "final"))
                       ELSE st_rerun(Store(StoreResult(Store(u, "reflection_log",
                              Append(u.ss.reflection_log, LogEntry("feedback", in.reflection))),
                              "problem_solving_score",
                              assess_problem_solving(in.reflection, Outcome(o, "problem_solving_score"))),
                              "stage", "final")))
      ELSE q)

\* lines 1253-1273: the two buttons
FeedbackButtons(r, click, in, o) ==
  Bind(Widgets(r, {<<"feedback_reflection", "">>, <<"feedback_back", "">>, <<"feedback_next", "">>}),
    LAMBDA q :
      IF Clicked(click, "feedback_back", "") THEN st_rerun(Store(q, "stage", "draft"))
      ELSE IF Clicked(click, "feedback_next", "")
           THEN IF strip(in.reflection) = <<>> THEN st_error(q, {<<"feedback reflection", "">>})
                ELSE Reading(q, {"reflection_log"}, LAMBDA u :
                       st_rerun(Store(StoreResult(Store(u, "reflection_log",
                           Append(u.ss.reflection_log, LogEntry("feedback", in.reflection))),
                         "problem_solving_score",
                         assess_problem_solving(in.reflection, Outcome(o, "problem_solving_score"))),
                         "stage", "final")))
      ELSE q)

FeedbackStage(r, click, in, o) ==
  Then(Then(r, LAMBDA q : FeedbackColumn(q, click, in, o)),
       LAMBDA q : FeedbackButtons(q, click, in, o))

(***************************************************************************)
(* Stage 5, lines 1276-1415.                                               *)
(***************************************************************************)
\* lines 1283-1293: the final text and its text area, whose value lives under final_input
FinalText(r) ==
  Then(Then(Then(r,
    LAMBDA q : IF Get(q.ss, "final_text", <<>>) = <<>>
               THEN Reading(q, {"draft"}, LAMBDA u : Store(u, "final_text", u.ss.draft))
               ELSE q),
    LAMBDA q : IF Has(q.ss, "final_input") THEN q ELSE Store(q, "final_input", q.ss.final_text)),
    LAMBDA q : Store(Widgets(q, {<<"final_input", "">>}), "final_text", q.ss.final_input))

\* lines 1298-1362: the two result panels
FinalResults(r) ==
  Reading(Reading(r, {"problem_solving_score"}, LAMBDA q :
            IF Truthy(q.ss.problem_solving_score)
            THEN Displayed(q, format_analysis_for_display(q.ss.problem_solving_score, "assessment"))
            ELSE q),
          {"writing_evaluation"}, LAMBDA q :
            IF Truthy(q.ss.writing_evaluation)
            THEN Displayed(q, format_analysis_for_display(q.ss.writing_evaluation, "evaluation"))
            ELSE q)

\* RestartSession without the assignment to stage
RestartKeepingStage(s) == [k \in {"stage"} |-> s.stage]

\* lines 1397-1400: every key but stage is popped, then stage is set
RestartSession(s) == [k \in {"stage"} |-> "input"]

\* lines 1366-1415: the buttons and the preview
FinalButtons(r, click) ==
  Then(Then(Reading(Then(r,
    LAMBDA q : IF Clicked(click, "final_back", "")
               THEN st_rerun(Store(Widgets(q, {<<"final_back", "">>}), "stage", "feedback"))
               ELSE Widgets(q, {<<"final_back", "">>})),
    {"tone_analysis1", "tone_analysis2", "writing_evaluation", "problem_solving_score",
     "paragraph_feedback"},
    LAMBDA q : Widgets(q, {w \in {<<"download", "">>} : strip(q.ss.final_text) # <<>>})),
    LAMBDA q : IF Clicked(click, "restart", "")
               THEN st_rerun([Widgets(q, {<<"restart", "">>}) EXCEPT !.ss = RestartSession(q.ss)])
               ELSE Widgets(q, {<<"restart", "">>})),
    LAMBDA q : IF strip(q.ss.final_text) # <<>>
               THEN Reading(q, {"reflection_log"}, LAMBDA u : u) ELSE q)

FinalStage(r, click) ==
  Then(Then(Then(r, FinalText), FinalResults), LAMBDA q : FinalButtons(q, click))

(***************************************************************************)
(* The script, top to bottom (lines 739-1452), and one user interaction.   *)
(***************************************************************************)
\* the state of the text area keyed final_input (line 1290) does not outlive a
\* run that completed without the area
RemoveStaleWidgets(r) ==
  IF Running(r) /\ <<"final_input", "">> \notin r.widgets /\ Has(r.ss, "final_input")
  THEN [r EXCEPT !.ss = [k \in DOMAIN r.ss \ {"final_input"} |-> r.ss[k]]]
  ELSE r

ScriptRun(s, click, in, o) ==
  Bind(Start(IF Has(s, "stage") THEN s ELSE InitialSession @@ s), LAMBDA r :
    Bind(CASE r.ss.stage = "input" -> InputStage(r, click, in)
           [] r.ss.stage = "analysis" -> AnalysisStage(r, click, in, o)
           [] r.ss.stage = "draft" -> DraftStage(r, click, o)
           [] r.ss.stage = "feedback" -> FeedbackStage(r, click, in, o)
           [] OTHER -> FinalStage(r, click),
         RemoveStaleWidgets))

\* the run that handles the interaction and, after st.rerun(), the run that follows
Interaction(s, click, in, o) ==
  Bind(ScriptRun(s, click, in, o), LAMBDA first :
    IF first.rerun
    THEN Bind(ScriptRun(first.ss, NoClick, in, o), LAMBDA second :
           [second EXCEPT !.calls = first.calls \cup second.calls])
    ELSE first)

(***************************************************************************)
(* What the user can enter.                                                *)
(***************************************************************************)
Article1Inputs == {<<>>, <<" ">>, <<"a">>}
Article2Inputs == {<<>>, <<" ">>, <<"b">>}
AnalysisReflectionInputs == {<<>>, <<" ">>, <<"r">>}
ShortReflection == <<" ", "o", "k">>
LongReflection == <<"r", "e", "f", "l", "e", "c", "t", "i", "o", "n">>
\* ten characters, two of them left by strip()
PaddedReflection == <<" ", " ", " ", " ", "o", "k", " ", " ", " ", " ">>
FeedbackReflectionInputs == {<<>>, <<" ">>, ShortReflection, PaddedReflection, LongReflection}
\* the first slot takes every kind of text; the others are filled, in page order
ParagraphInputs(i) ==
  IF i = 1 THEN {<<>>, <<" ">>, <<"p">>}
  ELSE {t \in {<<"p">>} : \A j \in 2..(i - 1) : Get(ss, ParagraphKeys[j], <<>>) # <<>>}
\* the slots whose complete button the user presses
FeedbackSlots == {1}
FinalInputs == {<<>>}

Assessment(blank, overall) ==
  [scores |-> [c \in Categories |-> 1],
   reflections |-> [c \in Categories |-> IF c \in blank THEN <<" ">> ELSE <<"w">>],
   overall_reflection |-> overall]

AssessmentInputs ==
  {Assessment(blank, overall) : blank \in {{}, {"guseong_chegyeseong"}}, overall \in {<<>>, <<"o">>}}

\* widget values of an interaction that does not use them
NoInput ==
  [article1 |-> <<>>, article2 |-> <<>>, reflection |-> <<>>,
   assessment |-> Assessment({}, <<>>)]

(***************************************************************************)
(* The collaborator's outcomes for one interaction: an outcome other than  *)
(* ok for some of the requests the interaction makes, within the budget.   *)
(***************************************************************************)
NoAnomaly == [site \in {} |-> "ok"]

Oracles(requests, budget) ==
  UNION {{o \in [A -> {"empty", "number", "prose", "raise"}] : \A site \in A : o[site] \in Outcomes(site)} :
           A \in {B \in SUBSET requests : Cardinality(B) <= budget}}

\* the interaction as a step of the state machine
Step(s, click, in) ==
  \E o \in Oracles(Interaction(s, click, in, NoAnomaly).calls, MaxAnomalies - anomalies) :
    \E r \in {Interaction(s, click, in, o)} :
      /\ DOMAIN o \subseteq r.calls
      /\ ss' = r.ss
      /\ fault' = r.fault
      /\ widgets' = r.widgets
      /\ errors' = r.errors
      /\ calls' = r.calls
      /\ anomalies' = anomalies + Cardinality(DOMAIN o)
      /\ UNCHANGED <<OPENAI_OK, response, parsed>>

OnPage(name, key) == <<name, key>> \in widgets

(***************************************************************************)
(* The user's actions.                                                     *)
(***************************************************************************)
\* a widget that keeps no session field changes, or the page is shown again
Rerun ==
  /\ \E w \in widgets : w[1] \in {"article_input", "analysis_reflection", "rubric_again",
                                  "feedback_reflection", "download"}
  /\ Step(ss, NoClick, NoInput)

InputNext ==
  /\ OnPage("input_next", "")
  /\ \E a1 \in Article1Inputs, a2 \in Article2Inputs :
       Step(ss, <<"input_next", "">>, [NoInput EXCEPT !.article1 = a1, !.article2 = a2])

AnalysisBack ==
  /\ OnPage("analysis_back", "")
  /\ Step(ss, <<"analysis_back", "">>, NoInput)

AnalysisNext ==
  /\ OnPage("analysis_next", "")
  /\ Len(Get(ss, "reflection_log", <<>>)) < MaxLog
  /\ \E text \in AnalysisReflectionInputs :
       Step(ss, <<"analysis_next", "">>, [NoInput EXCEPT !.reflection = text])

EditParagraph ==
  \E i \in Slots :
    /\ OnPage("paragraph", ParagraphKeys[i])
    /\ \E text \in ParagraphInputs(i) :
         /\ text # ss[ParagraphKeys[i]]
         /\ Step(Put(ss, ParagraphKeys[i], text), NoClick, NoInput)

ParagraphComplete ==
  \E i \in FeedbackSlots :
    /\ OnPage("complete", ParagraphKeys[i])
    /\ Step(ss, <<"complete", ParagraphKeys[i]>>, NoInput)

DraftBack ==
  /\ OnPage("draft_back", "")
  /\ Step(ss, <<"draft_back", "">>, NoInput)

DraftNext ==
  /\ OnPage("draft_next", "")
  /\ Step(ss, <<"draft_next", "">>, NoInput)

SubmitSelfAssessment ==
  /\ OnPage("self_assessment_submit", "")
  /\ \E data \in AssessmentInputs :
       Step(ss, <<"self_assessment_submit", "">>, [NoInput EXCEPT !.assessment = data])

FeedbackBack ==
  /\ OnPage("feedback_back", "")
  /\ Step(ss, <<"feedback_back", "">>, NoInput)

FeedbackNext ==
  /\ OnPage("feedback_next", "")
  /\ Len(Get(ss, "reflection_log", <<>>)) < MaxLog
  /\ \E text \in FeedbackReflectionInputs :
       Step(ss, <<"feedback_next", "">>, [NoInput EXCEPT !.reflection = text])

EditFinal ==
  /\ OnPage("final_input", "")
  /\ \E text \in FinalInputs :
       /\ text # ss.final_input
       /\ Step(Put(ss, "final_input", text), NoClick, NoInput)

FinalBack ==
  /\ OnPage("final_back", "")
  /\ Step(ss, <<"final_back", "">>, NoInput)

Restart ==
  /\ OnPage("restart", "")
  /\ Step(ss, <<"restart", "">>, NoInput)

Init ==
  /\ OPENAI_OK \in BOOLEAN
  /\ ss = InitialSession
  /\ fault = NoFault
  /\ widgets = {<<"article_input", "">>, <<"input_next", "">>}
  /\ errors = {}
  /\ calls = {}
  /\ anomalies = 0
  /\ response = <<>>
  /\ parsed = NotParsed

Next ==
  \/ Rerun
  \/ InputNext
  \/ AnalysisBack
  \/ AnalysisNext
  \/ EditParagraph
  \/ ParagraphComplete
  \/ DraftBack
  \/ DraftNext
  \/ SubmitSelfAssessment
  \/ FeedbackBack
  \/ FeedbackNext
  \/ EditFinal
  \/ FinalBack
  \/ Restart

Spec == Init /\ [][Next]_vars

(***************************************************************************)
(* The Draft page on its own: the session as it first shows Draft, and the *)
(* user editing the slots and asking for paragraph feedback and for hints  *)
(* in any order.  (In Spec the user fills the slots in page order, asks    *)
(* for feedback on the first only and asks for no hint: a hint changes     *)
(* nothing but the slot's hint text.)                                      *)
(***************************************************************************)
\* the slots worked on, and what the user types into them
DraftSlots == {1, 2}
DraftTexts == {<<>>, <<" ">>, <<"p">>}

\* both articles entered, the analysis reflected on: the run that first shows Draft
DraftEntered ==
  Interaction(
    Interaction(InitialSession, <<"input_next", "">>,
                [NoInput EXCEPT !.article1 = <<"a">>, !.article2 = <<"b">>], NoAnomaly).ss,
    <<"analysis_next", "">>, [NoInput EXCEPT !.reflection = <<"r">>], NoAnomaly)

DraftPageInit ==
  /\ OPENAI_OK \in BOOLEAN
  /\ ss = DraftEntered.ss
  /\ fault = DraftEntered.fault
  /\ widgets = DraftEntered.widgets
  /\ errors = DraftEntered.errors
  /\ calls = DraftEntered.calls
  /\ anomalies = 0
  /\ response = <<>>
  /\ parsed = NotParsed

EditDraftSlot ==
  \E i \in DraftSlots :
    /\ OnPage("paragraph", ParagraphKeys[i])
    /\ \E text \in DraftTexts :
         /\ text # ss[ParagraphKeys[i]]
         /\ Step(Put(ss, ParagraphKeys[i], text), NoClick, NoInput)

CompleteDraftSlot ==
  \E i \in DraftSlots :
    /\ OnPage("complete", ParagraphKeys[i])
    /\ Step(ss, <<"complete", ParagraphKeys[i]>>, NoInput)

Hint ==
  \E i \in DraftSlots :
    /\ OnPage("hint", ParagraphKeys[i])
    /\ Step(ss, <<"hint", ParagraphKeys[i]>>, NoInput)

DraftPageNext ==
  \/ EditDraftSlot
  \/ CompleteDraftSlot
  \/ Hint

DraftPageSpec == DraftPageInit /\ [][DraftPageNext]_vars

(***************************************************************************)
(* The Analysis page on its own: the session as it first shows Analysis,   *)
(* whatever the collaborator answered to each of the six requests of the   *)
(* batch, and the user looking at the page again, going back to Input and  *)
(* advancing again.  The anomalies are counted from that first showing.    *)
(***************************************************************************)
AnalysisPageInit ==
  /\ OPENAI_OK \in BOOLEAN
  /\ \E o \in {f \in [{"summary1", "summary2", "tone_analysis1", "tone_analysis2",
                         "summary1_kr", "summary2_kr"} -> {"ok", "empty", "number", "prose", "raise"}] :
                  \A site \in DOMAIN f : f[site] \in Outcomes(site)} :
       \E r \in {Interaction(InitialSession, <<"input_next", "">>,
                              [NoInput EXCEPT !.article1 = <<"a">>, !.article2 = <<"b">>], o)} :
         /\ OPENAI_OK \/ \A site \in DOMAIN o : o[site] = "ok"
         /\ ss = r.ss
         /\ fault = r.fault
         /\ widgets = r.widgets
         /\ errors = r.errors
         /\ calls = r.calls
  /\ anomalies = 0
  /\ response = <<>>
  /\ parsed = NotParsed

AnalysisPageSpec == AnalysisPageInit /\ [][Rerun \/ AnalysisBack \/ InputNext]_vars

(***************************************************************************)
(* The Final page on its own: the session as it first shows Final, after   *)
(* every slot was filled, the self-assessment accepted and the feedback    *)
(* reflected on, whatever the collaborator answered to the problem-solving *)
(* request; and the user editing the final text, pressing the download     *)
(* button, going back to Feedback and advancing again.  The anomalies are  *)
(* counted from that first showing.                                        *)
(***************************************************************************)
\* the run that first shows Final, the last request answered with `outcome`
FinalPageEntered(outcome) ==
  LET RECURSIVE Filled(_, _)
      \* the slots from i on typed in, one after the other
      Filled(s, i) ==
        IF i > NumParagraphs THEN s
        ELSE Bind(Interaction(Put(s, ParagraphKeys[i], <<"p">>), NoClick, NoInput, NoAnomaly).ss,
                  LAMBDA typed : Filled(typed, i + 1))
  IN Bind(DraftEntered.ss, LAMBDA draft_page :
       Bind(Filled(draft_page, 1), LAMBDA filled :
         Bind(Interaction(filled, <<"draft_next", "">>, NoInput, NoAnomaly).ss, LAMBDA feedback_page :
           Bind(Interaction(feedback_page, <<"self_assessment_submit", "">>,
                            [NoInput EXCEPT !.assessment = Assessment({}, <<"o">>)], NoAnomaly).ss,
                LAMBDA assessed :
                  Interaction(assessed, <<"feedback_next", "">>,
                              [NoInput EXCEPT !.reflection = LongReflection],
                              [site \in {"problem_solving_score"} |-> outcome])))))

FinalPageInit ==
  /\ OPENAI_OK \in BOOLEAN
  /\ \E outcome \in Outcomes("problem_solving_score") :
       \E r \in {FinalPageEntered(outcome)} :
         /\ OPENAI_OK \/ outcome = "ok"
         /\ ss = r.ss
         /\ fault = r.fault
         /\ widgets = r.widgets
         /\ errors = r.errors
         /\ calls = r.calls
  /\ anomalies = 0
  /\ response = <<>>
  /\ parsed = NotParsed

\* the user changes the final text: cleared, blank, or a text of their own
EditFinalText ==
  /\ OnPage("final_input", "")
  /\ \E text \in {<<>>, <<" ">>, <<"f">>} :
       /\ text # ss.final_input
       /\ Step(Put(ss, "final_input", text), NoClick, NoInput)

FinalPageSpec == FinalPageInit /\ [][EditFinalText \/ Rerun \/ FinalBack \/ FeedbackNext]_vars

(***************************************************************************)
(* The parser on its own: a response text, and the call that parses it.    *)
(* A response is made of what may come before a fence, an opening fence    *)
(* line, a body, a closing fence line and what may come after it.          *)
(***************************************************************************)
\* the string of a spelled-out object holds at most this many characters
MaxStringLen == 2

\* the strings of at most n characters
RECURSIVE Strings(_)
Strings(n) ==
  IF n = 0 THEN {<<>>}
  ELSE Strings(n - 1) \cup {Append(t, c) : t \in Strings(n - 1), c \in {"x", NL, FENCE}}

StringValues == Strings(MaxStringLen) \cup {<<FENCE, JSON_TAG, NL>>}

\* the string's characters as they stand in a JSON text
Escape(chars) == [i \in 1..Len(chars) |-> IF chars[i] = NL THEN ESC_NL ELSE chars[i]]

\* the text of the object {"k": chars}, on one line and with one member a line
ObjectText(chars) == <<LBRACE, KEY, " ", QUOTE>> \o Escape(chars) \o <<QUOTE, RBRACE>>
IndentedObjectText(chars) ==
  <<LBRACE, NL, " ", KEY, " ", QUOTE>> \o Escape(chars) \o <<QUOTE, NL, RBRACE>>
\* the text of the string chars
StringText(chars) == <<QUOTE>> \o Escape(chars) \o <<QUOTE>>

\* what stands between the fences: a JSON document, or a text that is none
Bodies ==
  {<<doc>> : doc \in JsonDocuments}
  \cup {ObjectText(chars) : chars \in StringValues}
  \cup {IndentedObjectText(chars) : chars \in StringValues}
  \cup {StringText(chars) : chars \in StringValues}
  \cup {<<>>, <<"x">>, <<LBRACE, KEY>>, <<TONE_JSON, "x">>}

ResponseTexts ==
  {before \o opening \o body \o closing \o after :
     before \in {<<>>, <<"x", NL>>, <<" ">>},
     opening \in {<<>>, <<FENCE, JSON_TAG, NL>>, <<FENCE, JSON_TAG, " ", NL>>,
                  <<FENCE, JSON_TAG>>, <<FENCE, NL>>},
     body \in Bodies,
     closing \in {<<>>, <<NL, FENCE>>, <<FENCE>>, <<NL, FENCE, NL>>},
     after \in {<<>>, <<NL, "x">>, <<NL>> \o Fenced(NUMBER_JSON)}}

ParserInit ==
  /\ OPENAI_OK = TRUE
  /\ ss = InitialSession
  /\ fault = NoFault
  /\ widgets = {}
  /\ errors = {}
  /\ calls = {}
  /\ anomalies = 0
  /\ response \in ResponseTexts
  /\ parsed = NotParsed

\* the call parse_gpt_json_response(response)
Parse ==
  /\ parsed = NotParsed
  /\ parsed' = parse_gpt_json_response(response)
  /\ UNCHANGED <<OPENAI_OK, ss, fault, widgets, errors, calls, anomalies, response>>

ParserSpec == ParserInit /\ [][Parse]_vars

(***************************************************************************)
(* Properties                                                              *)
(***************************************************************************)
Stage == ss.stage
\* the position of the stage in progress_stages
StageIndex(stage) == CHOOSE i \in 1..Len(progress_stages) : progress_stages[i] = stage
\* the value of a field that may be absent
Field(s, key) == IF Has(s, key) THEN <<s[key]>> ELSE <<>>

\* C1: on the Input page the next button moves the session to Analysis and stores
\* both article texts if and only if both texts entered are non-empty once
\* stripped; otherwise the stage and the stored articles stay as they were and
\* a validation message is shown.
InputAdvanceIffBothArticles ==
  OnPage("input_next", "") =>
    \A a1 \in Article1Inputs, a2 \in Article2Inputs :
      \A r \in {Interaction(ss, <<"input_next", "">>,
                            [NoInput EXCEPT !.article1 = a1, !.article2 = a2], NoAnomaly)} :
        IF /\ \E i \in 1..Len(a1) : a1[i] \notin Whitespace
           /\ \E i \in 1..Len(a2) : a2[i] \notin Whitespace
        THEN r.ss.stage = "analysis" /\ r.ss.article1 = a1 /\ r.ss.article2 = a2
        ELSE /\ r.ss.stage = Stage
             /\ Field(r.ss, "article1") = Field(ss, "article1")
             /\ Field(r.ss, "article2") = Field(ss, "article2")
             /\ r.errors # {}

\* C1: the session has advanced to Analysis with both articles stored
InputAdvanced ==
  /\ Stage = "analysis"
  /\ ss.article1 = <<"a">>
  /\ ss.article2 = <<"b">>
  /\ errors = {}

\* the fields the analysis batch fills; each is filled by the request of the same name
AnalysisFields ==
  {"summary1", "summary2", "summary1_kr", "summary2_kr", "tone_analysis1", "tone_analysis2"}
\* Analysis has been entered since the session was last cleared
AnalysisEntered(s) == Has(s, "article1") /\ s.article1 # <<>>

\* C2: once Analysis has been entered, no later step short of a restart runs the
\* batch again or changes a summary, a translation or a tone analysis.
AnalysisBatchOnce ==
  [][(AnalysisEntered(ss) /\ AnalysisEntered(ss')) =>
       /\ \A k \in AnalysisFields : ss'[k] = ss[k]
       /\ calls' \cap AnalysisFields = {}]_vars

\* C3: a restart leaves the stage at Input and every other field of the session
\* at the value the session starts with.
RestartZeroes ==
  [][(Stage = "final" /\ ss'.stage = "input") =>
       \A k \in DOMAIN InitialSession \ {"stage"} : Has(ss', k) /\ ss'[k] = InitialSession[k]]_vars

\* C4: no operation faults on a session field that is not defined when it is
\* read or appended to.
EveryFieldDefined ==
  ~(Len(fault) = 2 /\ fault[1] = "AttributeError" /\ fault[2] \in DOMAIN InitialSession)

\* what pressing the restart button does
RestartResult == Interaction(ss, <<"restart", "">>, NoInput, NoAnomaly)

StageLinear ==
  /\ Stage = "input"
  /\ [][/\ \E i \in 1..Len(progress_stages) : progress_stages[i] = ss'.stage
        /\ \/ StageIndex(ss'.stage) - StageIndex(Stage) \in {-1, 0, 1}
           \/ ss'.stage = "input"]_vars

\* C6: the session has walked the stages up to Final and come back one stage
StageWalked == Stage = "feedback" /\ Has(ss, "final_text") /\ ss.final_text # <<>>

\* the back button of a stage's page
BackButton(stage) ==
  CASE stage = "analysis" -> <<"analysis_back", "">>
    [] stage = "draft" -> <<"draft_back", "">>
    [] stage = "feedback" -> <<"feedback_back", "">>
    [] OTHER -> <<"final_back", "">>

\* the fields of the session other than the stage
DataFields == (DOMAIN InitialSession \ {"stage"}) \cup {ParagraphKeys[i] : i \in Slots}

\* C7: every page after Input offers the back button, and a step one stage back
\* changes no other field of the session.
BackOneStepKeepingFields ==
  [][/\ ss'.stage # "input" => BackButton(ss'.stage) \in widgets'
     /\ StageIndex(ss'.stage) = StageIndex(Stage) - 1 =>
          \A k \in DataFields \cap DOMAIN ss : Has(ss', k) /\ ss'[k] = ss[k]]_vars

\* what pressing the next button of the Draft page does
DraftNextResult == Interaction(ss, <<"draft_next", "">>, NoInput, NoAnomaly)

\* C8: on the Draft page the next button moves the session to Feedback if and
\* only if each of the five paragraphs is non-empty once stripped; otherwise the
\* stage stays Draft, no request is made, the feedback and the rubric evaluation
\* stay as they were, and an error is shown.
DraftAdvanceIffAllParagraphs ==
  OnPage("draft_next", "") =>
    IF \A i \in Slots : \E j \in 1..Len(ss[ParagraphKeys[i]]) : ss[ParagraphKeys[i]][j] \notin Whitespace
    THEN DraftNextResult.ss.stage = "feedback"
    ELSE /\ DraftNextResult.ss.stage = "draft"
         /\ DraftNextResult.calls = {}
         /\ DraftNextResult.ss.enhanced_feedback = ss.enhanced_feedback
         /\ DraftNextResult.ss.writing_evaluation = ss.writing_evaluation
         /\ DraftNextResult.errors # {}

\* C8: the next button has been refused with the first paragraph written and a later one empty
DraftAdvanceRefused ==
  /\ Stage = "draft"
  /\ ss.intro_input = <<"p">>
  /\ <<"write", "conclusion_input">> \in errors
  /\ <<"write", "intro_input">> \notin errors

\* the self-assessment has been accepted, so the feedback page has generated the feedback
FeedbackGenerated(s) == Has(s, "self_assessment") /\ Truthy(s.self_assessment)

\* C9: once the feedback and the rubric evaluation have been generated, no later
\* step short of a restart generates them again or changes them.
FeedbackGeneratedOnce ==
  [][(FeedbackGenerated(ss) /\ FeedbackGenerated(ss')) =>
       /\ ss'.enhanced_feedback = ss.enhanced_feedback
       /\ ss'.writing_evaluation = ss.writing_evaluation
       /\ calls' \cap {"enhanced_feedback", "english_draft", "writing_evaluation"} = {}]_vars

\* the contents of the reflections logged when Feedback was left
FeedbackReflections(s) ==
  IF Has(s, "reflection_log")
  THEN {s.reflection_log[i].content :
          i \in {j \in 1..Len(s.reflection_log) : s.reflection_log[j].stage = "feedback"}}
  ELSE {}

\* C10 as stated: once Feedback has been left for Final, no later step short of a
\* restart changes the problem-solving score.
ProblemSolvingScoredOnce ==
  [][(FeedbackReflections(ss) # {} /\ Has(ss', "problem_solving_score")) =>
       ss'.problem_solving_score = ss.problem_solving_score]_vars

\* C10 as amended: every step from Feedback to Final stores the assessment of the
\* reflection entered at that step, and no other step short of a restart changes
\* the problem-solving score.
ProblemSolvingScoredAtEachAdvance ==
  [][IF Stage = "feedback" /\ ss'.stage = "final"
     THEN ss'.problem_solving_score \in
            {assess_problem_solving(ss'.reflection_log[Len(ss'.reflection_log)].content, outcome).value :
               outcome \in Outcomes("problem_solving_score")}
     ELSE (Has(ss, "problem_solving_score") /\ Has(ss', "problem_solving_score")) =>
            ss'.problem_solving_score = ss.problem_solving_score]_vars

\* C10: Feedback has been left twice with different reflections and the score is
\* the assessment of the second
ProblemSolvingRescored ==
  /\ Stage = "final"
  /\ ss.reflection_log[Len(ss.reflection_log)].content = LongReflection
  /\ ShortReflection \in FeedbackReflections(ss)
  /\ ss.problem_solving_score = assess_problem_solving(LongReflection, "ok").value

\* the reflection log of a session; a session without the field has logged nothing
ReflectionLog(s) == Get(s, "reflection_log", <<>>)
\* the text has a character that is not whitespace
NonBlank(t) == \E i \in 1..Len(t) : t[i] \notin Whitespace

\* what pressing a stage's next button with the reflection `text` does
AdvanceResult(button, text) ==
  Interaction(ss, <<button, "">>, [NoInput EXCEPT !.reflection = text], NoAnomaly)

\* an advance out of Analysis or Feedback with a blank reflection leaves stage and log alone
BlankReflectionRefused ==
  \A button \in {"analysis_next", "feedback_next"} :
    OnPage(button, "") =>
      \A text \in {<<>>, <<" ">>, <<NL, " ">>} :
        \A r \in {AdvanceResult(button, text)} :
          /\ r.ss.stage = Stage
          /\ Field(r.ss, "reflection_log") = Field(ss, "reflection_log")

\* a step other than a restart: an advance out of Analysis or Feedback appends one
\* entry for the stage left, with a non-blank text; every other step keeps the log
ReflectionLogStep ==
  \/ Stage = "final" /\ ss'.stage = "input"
  \/ IF \/ Stage = "analysis" /\ ss'.stage = "draft"
        \/ Stage = "feedback" /\ ss'.stage = "final"
     THEN /\ Len(ReflectionLog(ss')) = Len(ReflectionLog(ss)) + 1
          /\ SubSeq(ReflectionLog(ss'), 1, Len(ReflectionLog(ss))) = ReflectionLog(ss)
          /\ ReflectionLog(ss')[Len(ReflectionLog(ss'))].stage = Stage
          /\ NonBlank(ReflectionLog(ss')[Len(ReflectionLog(ss'))].content)
     ELSE Field(ss', "reflection_log") = Field(ss, "reflection_log")

\* C11: between restarts the reflection log only grows, by exactly one entry at
\* each advance out of Analysis and out of Feedback and at no other step, so its
\* length is the number of those advances; an advance attempted with a blank
\* reflection is refused and leaves the stage and the log as they were.
ReflectionLogAppendOnly ==
  /\ ReflectionLog(ss) = <<>>
  /\ []BlankReflectionRefused
  /\ [][ReflectionLogStep]_vars

\* C11: Analysis has been left twice and Feedback once, each advance logged in order
ReflectionLogGrown ==
  /\ Len(ReflectionLog(ss)) = 3
  /\ ReflectionLog(ss)[1].stage = "analysis"
  /\ ReflectionLog(ss)[2].stage = "analysis"
  /\ ReflectionLog(ss)[3].stage = "feedback"

\* Draft has been shown since the session was last cleared: its five text areas exist
DraftReached(s) == Has(s, "draft") /\ \A i \in Slots : Has(s, ParagraphKeys[i])

\* the sections from position i on, each a header line and the slot's text, a blank line between
RECURSIVE SectionsFrom(_, _)
SectionsFrom(s, i) ==
  <<ParagraphHeaders[i], NL>> \o s[ParagraphKeys[i]]
  \o (IF i = NumParagraphs THEN <<>> ELSE <<NL, NL>> \o SectionsFrom(s, i + 1))

\* C12: once Draft has been reached, the stored draft is in every state the five
\* labelled sections in page order, each the header line and the slot's current
\* text, joined by a blank line.
DraftIsAssembled ==
  DraftReached(ss) => ss.draft = SectionsFrom(ss, 1)

\* C13: a step changes article1 or article2 only if it is the advance from Input
\* to Analysis or the restart; no step taken in Analysis, Draft, Feedback or
\* Final other than the restart changes either.
ArticlesFrozen ==
  [][(\/ Field(ss', "article1") # Field(ss, "article1")
      \/ Field(ss', "article2") # Field(ss, "article2")) =>
       \/ Stage = "input" /\ ss'.stage = "analysis"
       \/ Stage = "final" /\ ss'.stage = "input"]_vars

\* C13: the session has gone through every later stage, and back, with the articles stored
ArticlesKept ==
  /\ Stage = "final"
  /\ Field(ss, "article1") = <<(<<"a">>)>>
  /\ Field(ss, "article2") = <<(<<"b">>)>>
  /\ Len(ReflectionLog(ss)) = MaxLog

\* what pressing the complete button of the slot at position i does, the collaborator
\* answering the request (if one is made) with `outcome`
CompleteResult(i, outcome) ==
  Interaction(ss, <<"complete", ParagraphKeys[i]>>, NoInput,
              [site \in {x \in {"paragraph_feedback"} : outcome # "ok"} |-> outcome])

\* a structured paragraph feedback, or a record that carries an error
FeedbackRecord(v) ==
  /\ IsDict(v)
  /\ \/ HasKey(v, "error")
     \/ {"gangjeom", "gaeseonjeom", "guchejeok_jean", "chucheon_jeomsu"} \subseteq DOMAIN v.data

\* C14: pressing a slot's complete button in Draft makes no request and leaves the
\* paragraph-feedback map alone when the slot's text is blank; otherwise a
\* structured record or an error record is stored under the slot, in place of
\* what was stored there, and the other slots' feedback and the stage stay.
ParagraphFeedbackStored ==
  \A i \in Slots :
    OnPage("complete", ParagraphKeys[i]) =>
      \A outcome \in Outcomes("paragraph_feedback") :
        \A r \in {CompleteResult(i, outcome)} :
          IF NonBlank(ss[ParagraphKeys[i]])
          THEN /\ Has(r.ss.paragraph_feedback, ParagraphKeys[i])
               /\ FeedbackRecord(r.ss.paragraph_feedback[ParagraphKeys[i]])
               /\ \A j \in Slots \ {i} :
                    Field(r.ss.paragraph_feedback, ParagraphKeys[j])
                      = Field(ss.paragraph_feedback, ParagraphKeys[j])
               /\ r.ss.stage = Stage
          ELSE /\ r.calls = {}
               /\ r.ss.paragraph_feedback = ss.paragraph_feedback
               /\ r.ss.stage = Stage

\* the JSON encodings of an object X: json.dumps(X) and json.dumps(X, indent=1)
json_dumps(X) ==
  CASE X = ToneRecord -> {<<TONE_JSON>>}
    [] X = RubricRecord -> {<<RUBRIC_JSON>>}
    [] X = ProblemRecord -> {<<PROBLEM_JSON>>}
    [] X = ParagraphRecord -> {<<PARAGRAPH_JSON>>}
    [] OTHER -> {ObjectText(X.data.k), IndentedObjectText(X.data.k)}

\* the objects whose encodings are among the bodies
JsonObjects ==
  {ToneRecord, RubricRecord, ProblemRecord, ParagraphRecord}
  \cup {Dict([k |-> chars]) : chars \in StringValues}

\* an opening fence line tagged json, the text, a closing fence line
FenceWrap(text) == <<FENCE, JSON_TAG, NL>> \o text \o <<NL, FENCE>>

\* C15: for every JSON object X, parsing the text made of a json-tagged opening
\* fence line, the encoding of X and a closing fence line returns X.
ParserRoundTrip ==
  \A X \in JsonObjects :
    \A text \in json_dumps(X) :
      (response = FenceWrap(text) /\ parsed # NotParsed) => parsed = X

\* C15: an object whose string holds a line break and a fence marker has been
\* wrapped, parsed and returned
ParserRoundTripDone ==
  /\ response = FenceWrap(IndentedObjectText(<<NL, FENCE>>))
  /\ parsed = Dict([k |-> <<NL, FENCE>>])

\* C16: when what is left of the response after fence extraction and stripping is
\* no valid JSON (the empty text included), the parser returns an error record
\* whose raw_response is the response as it was given, untrimmed and with its fences.
ParserFailureKeepsResponse ==
  (parsed # NotParsed /\ ~json_loads(json_str(response)).ok) =>
    /\ IsDict(parsed)
    /\ DOMAIN parsed.data = {"error", "raw_response"}
    /\ parsed.data.error # <<>>
    /\ parsed.data.raw_response = response

\* C16: a response with a blank before the fence, a body that is no JSON and a line
\* break after the closing fence has been parsed into an error record that holds it whole
ParserFailureReported ==
  /\ response = <<" ", FENCE, JSON_TAG, NL, "x", NL, FENCE, NL>>
  /\ HasKey(parsed, "error")
  /\ parsed.data.raw_response = response

\* C18: whatever the collaborator answers, no script run ends in a fault raised on
\* a stored collaborator result: the only faults are reads of an absent session field.
CollaboratorNeverFaults ==
  fault # NoFault => (fault[1] = "AttributeError" /\ fault[2] \in DOMAIN InitialSession)

\* every wrapper answers with its fixed value for a missing credential, without a request
WrappersDisabled ==
  \A text \in {<<>>, <<"a">>, LongReflection}, outcome \in {"ok", "raise"} :
    /\ summarize_text(text, outcome) = Result(<<SUMMARY_UNAVAILABLE, API_ERROR>>, FALSE)
    /\ translate_to_korean(text, outcome) = Result(<<TRANSLATION_UNAVAILABLE, API_ERROR>>, FALSE)
    /\ translate_to_english(text, outcome) = Result(<<TRANSLATION_UNAVAILABLE, API_ERROR>>, FALSE)
    /\ analyze_tone_and_stance(text, outcome) = Result(ErrorOnly(<<API_ERROR>>), FALSE)
    /\ evaluate_writing_rubric(text, outcome) = Result(ErrorOnly(<<API_ERROR>>), FALSE)
    /\ get_paragraph_feedback(text, outcome) = Result(ErrorOnly(<<API_ERROR>>), FALSE)
    /\ enhanced_gpt_feedback(text, outcome) = Result(NO_API_KEY, FALSE)
    /\ assess_problem_solving(text, outcome) = Result(ErrorOnly(<<API_ERROR>>), FALSE)

\* what the session holds without a credential: the fixed values, and no hint
SessionDisabled ==
  /\ AnalysisEntered(ss) =>
       /\ ss.summary1 = <<SUMMARY_UNAVAILABLE, API_ERROR>>
       /\ ss.summary2 = <<SUMMARY_UNAVAILABLE, API_ERROR>>
       /\ ss.summary1_kr = <<TRANSLATION_UNAVAILABLE, API_ERROR>>
       /\ ss.summary2_kr = <<TRANSLATION_UNAVAILABLE, API_ERROR>>
       /\ ss.tone_analysis1 = ErrorOnly(<<API_ERROR>>)
       /\ ss.tone_analysis2 = ErrorOnly(<<API_ERROR>>)
  /\ Has(ss, "paragraph_feedback") =>
       \A key \in DOMAIN ss.paragraph_feedback : ss.paragraph_feedback[key] = ErrorOnly(<<API_ERROR>>)
  /\ FeedbackGenerated(ss) =>
       ss.enhanced_feedback = FEEDBACK_DISABLED /\ ss.writing_evaluation = EmptyDict
  /\ FeedbackReflections(ss) # {} => ss.problem_solving_score = ErrorOnly(<<API_ERROR>>)
  /\ \A i \in Slots : ~OnPage("hint", ParagraphKeys[i]) /\ ~Has(ss, hint_state_key(ParagraphKeys[i]))

ReflectionTexts ==
  {<<>>, <<" ">>, <<NL, " ">>, ShortReflection, PaddedReflection, LongReflection,
   <<" ">> \o LongReflection \o <<NL>>, SubSeq(LongReflection, 1, 9)}

\* the number of characters from the first to the last that is not whitespace
StrippedLength(t) ==
  IF NonBlank(t)
  THEN Greatest({i \in 1..Len(t) : t[i] \notin Whitespace})
         - Least({i \in 1..Len(t) : t[i] \notin Whitespace}) + 1
  ELSE 0

\* the reflection logged by the step being taken
LoggedReflection == ss'.reflection_log[Len(ss'.reflection_log)].content

\* C20 as stated: a reflection of fewer than 10 characters is given the canned
\* insufficient-input record with no request made, and a reflection of 10 or
\* more characters is put to the collaborator.
ShortReflectionCanned ==
  [][(Stage = "feedback" /\ ss'.stage = "final") =>
       IF Len(LoggedReflection) < MinReflectionLength
       THEN /\ ss'.problem_solving_score = InsufficientReflection(LoggedReflection)
            /\ "problem_solving_score" \notin calls'
       ELSE "problem_solving_score" \in calls']_vars

\* the assessment of each text: the fixed error record without a credential, the
\* canned record for fewer than 10 characters apart from surrounding whitespace,
\* a request otherwise
AssessmentByStrippedLength ==
  \A text \in ReflectionTexts : \A outcome \in Outcomes("problem_solving_score") :
    \A x \in {assess_problem_solving(text, outcome)} :
      IF ~OPENAI_OK THEN x = Result(ErrorOnly(<<API_ERROR>>), FALSE)
      ELSE IF StrippedLength(text) < MinReflectionLength
           THEN x = Result(InsufficientReflection(text), FALSE)
           ELSE x.called /\ x.value # InsufficientReflection(text)

\* an advance out of Feedback stores the assessment of the logged reflection
\* according to the credential and the stripped length
AdvanceByStrippedLength ==
  (Stage = "feedback" /\ ss'.stage = "final") =>
    IF ~OPENAI_OK
    THEN /\ ss'.problem_solving_score = ErrorOnly(<<API_ERROR>>)
         /\ "problem_solving_score" \notin calls'
    ELSE IF StrippedLength(LoggedReflection) < MinReflectionLength
         THEN /\ ss'.problem_solving_score = InsufficientReflection(LoggedReflection)
              /\ "problem_solving_score" \notin calls'
         ELSE "problem_solving_score" \in calls'

\* C20: with a credential, a reflection with fewer than 10 characters once
\* surrounding whitespace is removed (the empty text included) is given the canned
\* insufficient-input record, which quotes the text as entered, with no request
\* made, and a reflection with 10 or more such characters is put to the
\* collaborator; without a credential every reflection is given the fixed error
\* record with no request made.
ReflectionAssessedByStrippedLength ==
  []AssessmentByStrippedLength /\ [][AdvanceByStrippedLength]_vars

\* C20: a reflection of 10 characters, 2 of them apart from the padding, has been
\* given the canned record without a request
PaddedReflectionCanned ==
  /\ OPENAI_OK
  /\ Stage = "final"
  /\ ss.reflection_log[Len(ss.reflection_log)].content = PaddedReflection
  /\ ss.problem_solving_score = InsufficientReflection(PaddedReflection)
  /\ "problem_solving_score" \notin calls

\* C21: for every response that is valid JSON but not an object (a number, a
\* list, a string, true, null), the parser returns the decoded value itself and
\* not an error record.
NonObjectAccepted ==
  (parsed # NotParsed /\ json_loads(response).ok /\ ~IsDict(json_loads(response).value)) =>
    parsed = json_loads(response).value

\* C21: the numbers, lists, strings, booleans and null have each been returned as
\* decoded; here the string that spells an opening json fence
NonObjectReturned ==
  /\ response = <<QUOTE, FENCE, JSON_TAG, ESC_NL, QUOTE>>
  /\ parsed = Str(<<FENCE, JSON_TAG, NL>>)

\* C22: for every response that holds the json fence marker but no cleanly matching
\* fenced block, the parser removes every fence marker and decodes what is left, so
\* when what is left is valid JSON the parser returns its value.
FallbackStripsFences ==
  (parsed # NotParsed /\ ContainsSeq(response, <<FENCE, JSON_TAG>>) /\ FenceMatches(response) = {}) =>
    \A r \in {json_loads(Remove(Remove(response, <<FENCE, JSON_TAG>>), <<FENCE>>))} :
      r.ok => parsed = r.value

\* the opening fence lines of t tagged json: where the fence stands, and the line
\* break that ends the line, with nothing but whitespace after the tag
OpeningLines(t) ==
  {<<i, h>> \in (1..Len(t)) \X (1..Len(t)) :
     /\ t[i] = FENCE /\ i + 1 < h /\ t[i + 1] = JSON_TAG /\ t[h] = NL
     /\ \A k \in (i + 2)..(h - 1) : t[k] \in Whitespace \ {NL}}

\* where a fence starts a line of t after position h
ClosingFences(t, h) == {p \in (h + 1)..(Len(t) - 1) : t[p] = NL /\ t[p + 1] = FENCE}

\* the contents of the json-tagged fenced blocks of t, each with the place of its
\* opening fence: from the end of the opening fence line to the first fence that
\* starts a later line
FencedBlocks(t) ==
  {<<o[1], SubSeq(t, o[2] + 1, Least(ClosingFences(t, o[2])) - 1)>> :
     o \in {l \in OpeningLines(t) : ClosingFences(t, l[2]) # {}}}

\* C23: when the response holds one or more json-tagged fenced blocks, what the
\* parser decodes is the content of the first of them, up to its closing fence:
\* the parser returns the value of that content, or an error record when that
\* content is no valid JSON, whatever stands before the block or after it.
FirstBlockDecoded ==
  \A blocks \in {FencedBlocks(response)} :
    (parsed # NotParsed /\ blocks # {}) =>
      \A first \in {b \in blocks : \A c \in blocks : b[1] <= c[1]} :
        \A r \in {json_loads(first[2])} :
          IF r.ok THEN parsed = r.value
          ELSE HasKey(parsed, "error") /\ parsed.data.raw_response = response

\* C23: a response with prose before the block and a second block after it has
\* been parsed into the object of the first block
FirstBlockReturned ==
  /\ response = <<"x", NL>> \o Fenced(TONE_JSON) \o <<NL>> \o Fenced(NUMBER_JSON)
  /\ parsed = ToneRecord

\* Final has been entered since the last restart: Feedback has been left for it
FinalEntered(s) == FeedbackReflections(s) # {}

\* a step as C24 has it: a restart; or the first entry into Final, which makes the
\* final text the assembled draft; or a step that keeps the final text, unless
\* it is the user's edit of it on the Final page
FinalTextStep ==
  \/ Stage = "final" /\ ss'.stage = "input"
  \/ /\ ~FinalEntered(ss)
     /\ IF ss'.stage = "final" THEN ss'.final_text = ss'.draft
        ELSE Field(ss', "final_text") = Field(ss, "final_text")
  \/ /\ FinalEntered(ss)
     /\ \/ ss'.final_text = ss.final_text
        \/ Stage = "final" /\ ss'.stage = "final" /\ ss'.final_text \in FinalInputs

\* C24: the final text is made the assembled draft the first time Final is entered
\* and is independent of the draft afterwards: no change of the draft and no
\* re-entry into Final overwrites it, and every edit of it, clearing it included,
\* stays until the next edit or a restart.
FinalTextIndependent == [][FinalTextStep]_vars

\* the record analyze_tone_and_stance asks for (lines 374-381), without an error key
IsToneRecord(v) ==
  /\ IsDict(v)
  /\ DOMAIN v.data = {"nonjo_bunryu", "nonjo_jeomsu", "juyo_nonjeom", "gamjeongjeok_eoneo",
                      "sinroedo_jeomsu", "gaekgwanseong_jeomsu"}
  /\ v.data.nonjo_jeomsu \in -3..3
  /\ v.data.sinroedo_jeomsu \in 1..10
  /\ v.data.gaekgwanseong_jeomsu \in 1..10

\* C25: every tone analysis stored by the Analysis batch is either the record
\* asked for, with no error key, or a record with an error key, never both and
\* never neither.
ToneAnalysisShapes ==
  AnalysisEntered(ss) =>
    \A key \in {"tone_analysis1", "tone_analysis2"} :
      IsToneRecord(ss[key]) # HasKey(ss[key], "error")

\* the slots whose text the step being taken changes
EditedSlots == {i \in Slots : ss'[ParagraphKeys[i]] # ss[ParagraphKeys[i]]}

\* C27: a step that edits the text of a paragraph slot in Draft changes that
\* slot's text and the assembled draft and nothing else: the paragraph feedback
\* stored for that slot and for every other slot stays as it was, and no request
\* is made; the draft is assembled anew when the page is shown to its end.
ParagraphEditKeepsFeedback ==
  [][EditedSlots # {} =>
       /\ Cardinality(EditedSlots) = 1
       /\ DOMAIN ss' = DOMAIN ss
       /\ \A k \in DOMAIN ss \ ({"draft"} \cup {ParagraphKeys[i] : i \in EditedSlots}) :
            ss'[k] = ss[k]
       /\ ss'.paragraph_feedback = ss.paragraph_feedback
       /\ calls' = {}
       /\ fault' = NoFault => ss'.draft = full_draft(ss')]_vars

\* C27: the feedback given for the first slot's text is still stored after the
\* slot has been edited to a blank text, for which no feedback is ever given
FeedbackOutlivesText ==
  /\ Stage = "draft"
  /\ strip(ss.intro_input) = <<>>
  /\ Has(ss.paragraph_feedback, "intro_input")
  /\ ss.paragraph_feedback.intro_input = ParagraphRecord

\* C28: whenever the stage is Final, the self-assessment has been completed and
\* the narrative feedback is not empty.
FinalAfterFeedback ==
  Stage = "final" => (Truthy(ss.self_assessment) /\ ss.enhanced_feedback # <<>>)

\* the analysis fields a session holds, with their values
AnalysisValues(s) == [k \in AnalysisFields \cap DOMAIN s |-> s[k]]

\* for each article: its field, and the fields of its summary, tone analysis and translation
ArticleFields ==
  {[article |-> "article1", summary |-> "summary1", tone |-> "tone_analysis1", kr |-> "summary1_kr"],
   [article |-> "article2", summary |-> "summary2", tone |-> "tone_analysis2", kr |-> "summary2_kr"]}

\* the six fields of s are the results of one whole batch: for each article the
\* summary and the tone analysis are results for that article, and the
\* translation is a result for the summary stored beside it
WholeBatch(s) ==
  /\ AnalysisFields \subseteq DOMAIN s
  /\ \A f \in ArticleFields :
       /\ s[f.summary] \in {summarize_text(s[f.article], oc).value : oc \in Outcomes(f.summary)}
       /\ s[f.tone] \in {analyze_tone_and_stance(s[f.article], oc).value : oc \in Outcomes(f.tone)}
       /\ s[f.kr] \in {translate_to_korean(s[f.summary], oc).value : oc \in Outcomes(f.kr)}

FailureStored(s, site) ==
  /\ Has(s, site)
  /\ CASE site \in {"summary1", "summary2"} -> s[site] = <<SUMMARY_FAILED, EXCEPTION_TEXT>>
       [] site \in {"summary1_kr", "summary2_kr"} -> s[site] = <<TRANSLATION_FAILED, EXCEPTION_TEXT>>
       [] site = "enhanced_feedback" -> s[site] = GPT_CALL_ERROR
       [] OTHER -> HasKey(s[site], "error")

\* C30: once a summarize, tone-analysis, translation, narrative-feedback or rubric
\* request has failed and its error value is stored, no step short of a restart
\* makes that request again, and the stored error value stays.
FailureNeverRetried ==
  [][\A site \in AnalysisFields \cup {"enhanced_feedback", "writing_evaluation"} :
       (FailureStored(ss, site) /\ ~(Stage = "final" /\ ss'.stage = "input")) =>
         (site \notin calls' /\ Field(ss', site) = Field(ss, site))]_vars

\* a self-assessment has been accepted and is stored
Accepted(s) == Has(s, "self_assessment") /\ Truthy(s.self_assessment)

\* the fields of a self-assessment form that are empty after trimming
EmptyFields(data) ==
  {c \in Categories : ~NonBlank(data.reflections[c])}
  \cup {c \in {"overall_reflection"} : ~NonBlank(data.overall_reflection)}

\* what submitting the self-assessment form filled with `data` does
SubmitResult(data) ==
  Interaction(ss, <<"self_assessment_submit", "">>, [NoInput EXCEPT !.assessment = data], NoAnomaly)

\* a submission with an empty field is refused: the self-assessment stays unset and
\* the errors shown are one for each empty field
BlankSubmissionRefused ==
  OnPage("self_assessment_submit", "") =>
    \A data \in {d \in AssessmentInputs : EmptyFields(d) # {}} :
      \A r \in {SubmitResult(data)} :
        /\ r.ss.self_assessment = None
        /\ r.ss.stage = "feedback"
        /\ r.errors = {<<c, "">> : c \in EmptyFields(data)}
        /\ r.calls = {}

\* a step other than a restart: the narrative feedback and the rubric evaluation
\* are requested or stored only with a self-assessment accepted; a self-assessment
\* is accepted only in Feedback and only with its four texts non-empty after
\* trimming; an accepted self-assessment stays as it is
SelfAssessmentStep ==
  \/ Stage = "final" /\ ss'.stage = "input"
  \/ /\ (\/ calls' \cap {"enhanced_feedback", "english_draft", "writing_evaluation"} # {}
          \/ Field(ss', "enhanced_feedback") # Field(ss, "enhanced_feedback")
          \/ Field(ss', "writing_evaluation") # Field(ss, "writing_evaluation"))
         => Accepted(ss')
     /\ (~Accepted(ss) /\ Accepted(ss')) =>
           /\ Stage = "feedback" /\ ss'.stage = "feedback"
           /\ IsDict(ss'.self_assessment)
           /\ EmptyFields(ss'.self_assessment.data) = {}
     /\ Accepted(ss) => Field(ss', "self_assessment") = Field(ss, "self_assessment")

\* C31: in Feedback neither the narrative feedback nor the rubric evaluation is
\* generated before a self-assessment has been accepted; a self-assessment is
\* accepted only when its three justifications and its overall reflection are
\* non-empty after trimming; a refused submission leaves it unset and shows one
\* error for each empty field; once accepted it stays unchanged until a restart.
SelfAssessmentGate ==
  /\ ~Accepted(ss)
  /\ []BlankSubmissionRefused
  /\ [][SelfAssessmentStep]_vars

\* C31: the self-assessment has just been accepted and the feedback generated with it
SelfAssessmentAccepted ==
  /\ Stage = "feedback"
  /\ ss.self_assessment = Dict(Assessment({}, <<"o">>))
  /\ {"enhanced_feedback", "writing_evaluation"} \subseteq calls
  /\ ss.enhanced_feedback = enhanced_gpt_feedback(ss.draft, "ok").value
  /\ ss.writing_evaluation = RubricRecord

\* C32: in every reachable state each entry of the reflection log is tagged
\* analysis or feedback, and each entry tagged feedback has an entry tagged
\* analysis somewhere before it in the log.
LogTagsOrdered ==
  \A i \in 1..Len(ReflectionLog(ss)) :
    /\ ReflectionLog(ss)[i].stage \in {"analysis", "feedback"}
    /\ ReflectionLog(ss)[i].stage = "feedback" =>
         \E j \in 1..(i - 1) : ReflectionLog(ss)[j].stage = "analysis"

\* C32: Feedback has been left twice after Analysis was left once
FeedbackLoggedTwice ==
  /\ Stage = "final"
  /\ Len(ReflectionLog(ss)) = 3
  /\ ReflectionLog(ss)[1].stage = "analysis"
  /\ ReflectionLog(ss)[2].stage = "feedback"
  /\ ReflectionLog(ss)[3].stage = "feedback"

\* the values summarize_text returns in place of a summary: "요약 실패: e",
\* "요약 불가: API 오류", "요약 불가: 입력된 텍스트가 없습니다."
SummaryFailures ==
  {<<SUMMARY_FAILED, EXCEPTION_TEXT>>, <<SUMMARY_UNAVAILABLE, API_ERROR>>,
   <<SUMMARY_UNAVAILABLE, NO_INPUT_TEXT>>}

\* the article whose stored summary is such a value
SummaryFailed(f) == Has(ss, f.summary) /\ Has(ss, f.kr) /\ ss[f.summary] \in SummaryFailures

\* the translation stored for the article is a result of translating the summary
\* stored for that article
TranslatedFromOwnSummary(f) ==
  ss[f.kr] \in {translate_to_korean(ss[f.summary], oc).value : oc \in Outcomes(f.kr)}

\* C33 as stated: when the summary stored for an article is a summarization-failure
\* value, no translation request was made for that article and the fixed message
\* "no source summary" is stored as its translation, and the other article's
\* translation is the translation of its own summary.
FailedSummaryNotTranslated ==
  \A f \in ArticleFields :
    SummaryFailed(f) =>
      /\ f.kr \notin calls
      /\ ss[f.kr] = NO_SOURCE_SUMMARY
      /\ \A g \in ArticleFields \ {f} : TranslatedFromOwnSummary(g)

\* C33 as amended: when the summary stored for an article is a summarization-failure
\* value, no translation request was made for that article; with the credential
\* configured the fixed message "no source summary" is stored as its translation,
\* without it the message "translation unavailable: API error", because the
\* credential is looked at first; the other article's translation is the
\* translation of its own summary.
FailedSummaryNotTranslatedWithCredential ==
  \A f \in ArticleFields :
    SummaryFailed(f) =>
      /\ f.kr \notin calls
      /\ ss[f.kr] = IF OPENAI_OK THEN NO_SOURCE_SUMMARY ELSE <<TRANSLATION_UNAVAILABLE, API_ERROR>>
      /\ \A g \in ArticleFields \ {f} : TranslatedFromOwnSummary(g)

\* C33: the batch, run again by the step just taken, failed to summarize article 2,
\* made no translation request for it and translated the summary of article 1
SecondSummaryFailed ==
  /\ OPENAI_OK
  /\ anomalies = 1
  /\ ss.summary2 = <<SUMMARY_FAILED, EXCEPTION_TEXT>>
  /\ ss.summary2_kr = NO_SOURCE_SUMMARY
  /\ {"summary1", "summary2", "summary1_kr"} \subseteq calls
  /\ "summary2_kr" \notin calls
  /\ ss.summary1_kr = translate_to_korean(summarize_text(<<"a">>, "ok").value, "ok").value

\* what pressing the download button does: the script runs again, no button of
\* the page reads as pressed
DownloadResult == Interaction(ss, NoClick, NoInput, NoAnomaly)

\* the download button is enabled exactly when the final text is non-empty after trimming
DownloadEnabledIffText ==
  Stage = "final" => (OnPage("download", "") <=> NonBlank(Get(ss, "final_text", <<>>)))

\* producing the report and downloading it leave every session field as it was
DownloadKeepsSession ==
  OnPage("download", "") =>
    /\ DownloadResult.ss = ss
    /\ DownloadResult.calls = {}

\* C34: in Final the report download is enabled exactly when the current final
\* text is non-empty after trimming, and producing or downloading the report
\* changes no session field.
DownloadGate == DownloadEnabledIffText /\ DownloadKeepsSession

====
